---- MODULE Spec2Model ----
(***************************************************************************)
(* pixel-url: the coordinate transformation utilities                      *)
(* (utils/coordinateTransform), the selection state machine                *)
(* (hooks/useCanvasSelection), the selection overlay driving it inside     *)
(* PDFViewerWithSelection, the pixel extraction (utils/imageExtraction)    *)
(* and the render effect of PDFViewer.  Each part has its own              *)
(* specification; the variables of the other parts stay at rest in it.     *)
(*                                                                         *)
(* JavaScript numbers are modelled as exact rationals [n, d] in lowest     *)
(* terms with d > 0; d = 0 stands for the IEEE values a division by zero   *)
(* produces (n = 1: Infinity, n = -1: -Infinity, n = 0: NaN).  Rounding of *)
(* the binary floating-point representation is not modelled.               *)
(***************************************************************************)
EXTENDS Integers, Sequences, FiniteSets, TLC

----------------------------------------------------------------------------
(* Bounds of the model *)

\* number of mouse positions beside the corners of the example drag
MaxX == 1
MaxY == 1
\* pure-function inputs: integers in -MaxCoord..MaxCoord
MaxCoord == 2
\* page numbers 1..MaxPage
MaxPage == 2

----------------------------------------------------------------------------
(* Numbers *)

Abs(i) == IF i < 0 THEN -i ELSE i

Sgn(i) == IF i < 0 THEN -1 ELSE IF i > 0 THEN 1 ELSE 0

RECURSIVE GCD(_, _)
GCD(a, b) == IF b = 0 THEN a ELSE GCD(b, a % b)

\* the number n / d
Rat(n, d) ==
  IF d = 0 THEN [n |-> Sgn(n), d |-> 0]
  ELSE LET g == GCD(Abs(n), Abs(d))
       IN  [n |-> (Sgn(d) * n) \div g, d |-> Abs(d) \div g]

Num(i) == [n |-> i, d |-> 1]

Zero == Num(0)

Add(a, b) == Rat(a.n * b.d + b.n * a.d, a.d * b.d)

Sub(a, b) == Rat(a.n * b.d - b.n * a.d, a.d * b.d)

Mul(a, b) == Rat(a.n * b.n, a.d * b.d)

Div(a, b) == Rat(a.n * b.d, a.d * b.n)

Less(a, b) == a.n * b.d < b.n * a.d

LessEq(a, b) == a.n * b.d <= b.n * a.d

\* Math.abs
MathAbs(a) == [n |-> Abs(a.n), d |-> a.d]

\* Math.min, Math.max
MathMin(a, b) == IF Less(b, a) THEN b ELSE a

MathMax(a, b) == IF Less(a, b) THEN b ELSE a

----------------------------------------------------------------------------
(* utils/coordinateTransform *)

\* an optional field that is not present (offsetX?: number)
Absent == [absent |-> TRUE]

\* the value of a state or result that is null
Null == [null |-> TRUE]

\* viewport.offsetX || 0
OrZero(o) == IF o = Absent THEN Zero ELSE IF o.n = 0 THEN Zero ELSE o

\* an exception thrown to the caller
Thrown(msg) == [thrown |-> msg]

IsThrown(r) == DOMAIN r = {"thrown"}

InvalidScale == Thrown("Invalid scale: scale must be greater than 0")

Point(x, y) == [x |-> x, y |-> y]

\* screenToPDF whose guard lets a zero scale through (scale < 0 instead of scale <= 0)
screenToPDF_zeroAllowed(screenCoords, viewport) ==
  IF Less(viewport.scale, Zero)
  THEN InvalidScale
  ELSE [x |-> Div(Sub(screenCoords.x, OrZero(viewport.offsetX)), viewport.scale),
        y |-> Div(Sub(screenCoords.y, OrZero(viewport.offsetY)), viewport.scale)]

screenToPDF(screenCoords, viewport) ==
  IF LessEq(viewport.scale, Zero)
  THEN InvalidScale
  ELSE [x |-> Div(Sub(screenCoords.x, OrZero(viewport.offsetX)), viewport.scale),
        y |-> Div(Sub(screenCoords.y, OrZero(viewport.offsetY)), viewport.scale)]

\* pdfToScreen that forgets the offset of the canvas
pdfToScreen_noOffset(pdfCoords, viewport) ==
  [x |-> Mul(pdfCoords.x, viewport.scale),
   y |-> Mul(pdfCoords.y, viewport.scale)]

pdfToScreen(pdfCoords, viewport) ==
  [x |-> Add(Mul(pdfCoords.x, viewport.scale), OrZero(viewport.offsetX)),
   y |-> Add(Mul(pdfCoords.y, viewport.scale), OrZero(viewport.offsetY))]

\* normalizeSelection that flips the sign of a negative size but leaves the corner
normalizeSelection_noShift(selection) ==
  [x          |-> selection.x,
   y          |-> selection.y,
   width      |-> MathAbs(selection.width),
   height     |-> MathAbs(selection.height),
   pageNumber |-> selection.pageNumber,
   scale      |-> selection.scale,
   normalized |-> TRUE]

\* normalizeSelection that moves the corner but keeps the negative size
normalizeSelection_noAbs(selection) ==
  [x          |-> IF Less(selection.width, Zero)
                  THEN Add(selection.x, selection.width) ELSE selection.x,
   y          |-> IF Less(selection.height, Zero)
                  THEN Add(selection.y, selection.height) ELSE selection.y,
   width      |-> selection.width,
   height     |-> selection.height,
   pageNumber |-> selection.pageNumber,
   scale      |-> selection.scale,
   normalized |-> TRUE]

normalizeSelection(selection) ==
  LET negW == Less(selection.width, Zero)
      negH == Less(selection.height, Zero)
  IN  [x          |-> IF negW THEN Add(selection.x, selection.width) ELSE selection.x,
       y          |-> IF negH THEN Add(selection.y, selection.height) ELSE selection.y,
       width      |-> IF negW THEN MathAbs(selection.width) ELSE selection.width,
       height     |-> IF negH THEN MathAbs(selection.height) ELSE selection.height,
       pageNumber |-> selection.pageNumber,
       scale      |-> selection.scale,
       normalized |-> TRUE]

\* getSelectionBounds that tags the box of the deltas without normalizing it
getSelectionBounds_deltasOnly(startPoint, endPoint, viewport, pageNumber) ==
  LET startPDF == screenToPDF(startPoint, viewport)
      endPDF   == screenToPDF(endPoint, viewport)
  IN  IF IsThrown(startPDF) THEN startPDF
      ELSE [x          |-> startPDF.x,
            y          |-> startPDF.y,
            width      |-> Sub(endPDF.x, startPDF.x),
            height     |-> Sub(endPDF.y, startPDF.y),
            pageNumber |-> pageNumber,
            scale      |-> viewport.scale,
            normalized |-> TRUE]

getSelectionBounds(startPoint, endPoint, viewport, pageNumber) ==
  LET startPDF == screenToPDF(startPoint, viewport)
      endPDF   == screenToPDF(endPoint, viewport)
  IN  IF IsThrown(startPDF) THEN startPDF
      ELSE normalizeSelection(
             [x          |-> startPDF.x,
              y          |-> startPDF.y,
              width      |-> Sub(endPDF.x, startPDF.x),
              height     |-> Sub(endPDF.y, startPDF.y),
              pageNumber |-> pageNumber,
              scale      |-> viewport.scale])

\* transformBounds that keeps the scale tag of the box
transformBounds_keepsScale(bounds, newScale) ==
  LET scaleRatio == Div(newScale, bounds.scale)
  IN  [x          |-> Mul(bounds.x, scaleRatio),
       y          |-> Mul(bounds.y, scaleRatio),
       width      |-> Mul(bounds.width, scaleRatio),
       height     |-> Mul(bounds.height, scaleRatio),
       pageNumber |-> bounds.pageNumber,
       scale      |-> bounds.scale]

transformBounds(bounds, newScale) ==
  LET scaleRatio == Div(newScale, bounds.scale)
  IN  [x          |-> Mul(bounds.x, scaleRatio),
       y          |-> Mul(bounds.y, scaleRatio),
       width      |-> Mul(bounds.width, scaleRatio),
       height     |-> Mul(bounds.height, scaleRatio),
       pageNumber |-> bounds.pageNumber,
       scale      |-> newScale]

clampToViewport(selection, vp) ==
  LET maxX == vp.width
      maxY == vp.height
  IN  [selection EXCEPT
         !.x      = MathMax(Zero, MathMin(selection.x, Sub(maxX, selection.width))),
         !.y      = MathMax(Zero, MathMin(selection.y, Sub(maxY, selection.height))),
         !.width  = MathMin(selection.width, Sub(maxX, selection.x)),
         !.height = MathMin(selection.height, Sub(maxY, selection.y))]

\* the array [a, b, c, d, e, f], by the names applyTransform gives its entries
Matrix(a, b, c, d, e, f) == [a |-> a, b |-> b, c |-> c, d |-> d, e |-> e, f |-> f]

\* createTransformMatrix that leaves the translation out
createTransformMatrix_noTranslation(viewport) ==
  Matrix(viewport.scale, Zero, Zero, viewport.scale, Zero, Zero)

createTransformMatrix(viewport) ==
  Matrix(viewport.scale, Zero, Zero, viewport.scale,
         OrZero(viewport.offsetX), OrZero(viewport.offsetY))

\* const [a, b, c, d, e, f] = matrix
applyTransform(point, m) ==
  [x |-> Add(Add(Mul(m.a, point.x), Mul(m.c, point.y)), m.e),
   y |-> Add(Add(Mul(m.b, point.x), Mul(m.d, point.y)), m.f)]

----------------------------------------------------------------------------
(* Calls of the coordinate transformation functions *)

VARIABLES
  screenCoords,     \* the point passed to screenToPDF
  argViewport,      \* the viewport passed to screenToPDF and pdfToScreen
  pdfCoords,        \* what screenToPDF returned or threw
  backToScreen,     \* what pdfToScreen returned for pdfCoords
  argBox,           \* the box passed to normalizeSelection
  normalizedOnce,   \* normalizeSelection(argBox)
  normalizedTwice,  \* normalizeSelection(normalizedOnce)
  matrix,           \* createTransformMatrix(argViewport)
  viaMatrix,        \* applyTransform(screenCoords, matrix)
  direct            \* pdfToScreen(screenCoords, argViewport)

matrixVars == <<matrix, viaMatrix, direct>>

transformVars ==
  <<screenCoords, argViewport, pdfCoords, backToScreen,
    argBox, normalizedOnce, normalizedTwice, matrixVars>>

Scalars == {Num(i) : i \in -MaxCoord..MaxCoord}

Points == {Point(x, y) : x \in Scalars, y \in Scalars}

\* zoom factors, the invalid ones (0, negative) included
Scales == {Num(0), Num(-1), Num(1), Num(2), Rat(1, 2), Rat(3, 2)}

Offsets == {Absent} \cup {Num(i) : i \in 0..MaxCoord}

Viewports ==
  {[width |-> Num(800), height |-> Num(600), scale |-> s, offsetX |-> ox, offsetY |-> oy] :
     s \in Scales, ox \in Offsets, oy \in Offsets}

\* the box of the normalization example: {x:50, y:20, width:-40, height:80}
ExampleBox ==
  [x |-> Num(50), y |-> Num(20), width |-> Num(-40), height |-> Num(80),
   pageNumber |-> 1, scale |-> Num(1)]

Boxes ==
  {[x |-> x, y |-> y, width |-> w, height |-> h, pageNumber |-> n, scale |-> s] :
     x \in {Num(-1), Num(2)}, y \in {Num(0), Num(1)}, w \in Scalars, h \in Scalars,
     n \in 1..MaxPage, s \in {Num(1), Rat(3, 2)}}
  \cup {ExampleBox}

\* the arguments of one call are drawn; nothing has been called yet
InitTransform ==
  /\ matrix = Null
  /\ viaMatrix = Null
  /\ direct = Null
  /\ pdfCoords = Null
  /\ backToScreen = Null
  /\ normalizedOnce = Null
  /\ normalizedTwice = Null
  /\ \/ /\ screenCoords \in Points
        /\ argViewport \in Viewports
        /\ argBox = Null
     \/ /\ screenCoords = Null
        /\ argViewport = Null
        /\ argBox \in Boxes

\* screenToPDF(screenCoords, argViewport) is called
CallScreenToPDF ==
  /\ screenCoords # Null
  /\ pdfCoords = Null
  /\ pdfCoords' = screenToPDF(screenCoords, argViewport)
  /\ UNCHANGED <<screenCoords, argViewport, backToScreen, argBox, normalizedOnce, normalizedTwice>>
  /\ UNCHANGED matrixVars

\* pdfToScreen is called with the coordinates screenToPDF returned
CallPdfToScreen ==
  /\ pdfCoords # Null
  /\ ~IsThrown(pdfCoords)
  /\ backToScreen = Null
  /\ backToScreen' = pdfToScreen(pdfCoords, argViewport)
  /\ UNCHANGED <<screenCoords, argViewport, pdfCoords, argBox, normalizedOnce, normalizedTwice>>
  /\ UNCHANGED matrixVars

\* normalizeSelection(argBox) is called
CallNormalizeSelection ==
  /\ argBox # Null
  /\ normalizedOnce = Null
  /\ normalizedOnce' = normalizeSelection(argBox)
  /\ UNCHANGED <<screenCoords, argViewport, pdfCoords, backToScreen, argBox, normalizedTwice>>
  /\ UNCHANGED matrixVars

\* normalizeSelection is called with its own result
CallNormalizeAgain ==
  /\ normalizedOnce # Null
  /\ normalizedTwice = Null
  /\ normalizedTwice' = normalizeSelection(normalizedOnce)
  /\ UNCHANGED <<screenCoords, argViewport, pdfCoords, backToScreen, argBox, normalizedOnce>>
  /\ UNCHANGED matrixVars

callArgs ==
  <<screenCoords, argViewport, pdfCoords, backToScreen, argBox, normalizedOnce, normalizedTwice>>

\* createTransformMatrix(argViewport) is called
CallCreateTransformMatrix ==
  /\ argViewport # Null
  /\ matrix = Null
  /\ matrix' = createTransformMatrix(argViewport)
  /\ UNCHANGED <<callArgs, viaMatrix, direct>>

\* applyTransform is called with the point and the matrix of the viewport
CallApplyTransform ==
  /\ matrix # Null
  /\ viaMatrix = Null
  /\ viaMatrix' = applyTransform(screenCoords, matrix)
  /\ UNCHANGED <<callArgs, matrix, direct>>

\* pdfToScreen is called with the same point and the viewport itself
CallPdfToScreenDirect ==
  /\ screenCoords # Null
  /\ direct = Null
  /\ direct' = pdfToScreen(screenCoords, argViewport)
  /\ UNCHANGED <<callArgs, matrix, viaMatrix>>

NextTransform ==
  \/ CallScreenToPDF
  \/ CallPdfToScreen
  \/ CallNormalizeSelection
  \/ CallNormalizeAgain
  \/ CallCreateTransformMatrix
  \/ CallApplyTransform
  \/ CallPdfToScreenDirect


----------------------------------------------------------------------------
(* hooks/useCanvasSelection *)

VARIABLES
  viewport,         \* prop: the viewport of the rendered page
  pageNumber,       \* prop: the active page
  isSelecting,      \* useState values as of the last render: these are the
  startPoint,       \*   values the callbacks of that render read
  endPoint,
  selectionBounds,
  queued,           \* the values the setters have written since; the next render commits them
  last,             \* the last call: its name, the callbacks it invoked, what it threw
  tick              \* flips with every call

selectionVars ==
  <<viewport, pageNumber, isSelecting, startPoint, endPoint, selectionBounds, queued, last, tick>>

\* default of the minSelectionSize prop
minSelectionSize == 5

\* distance of two neighbouring mouse positions: below minSelectionSize
CoordStep == 3

\* the drag of the end-to-end example: (10,20) -> (50,60)
ExampleStart == Point(Num(10), Num(20))

ExampleEnd == Point(Num(50), Num(60))

\* mouse positions: the two corners of the example, MaxX positions CoordStep
\* apart to the right of its start (on the height of its end) and MaxY
\* positions CoordStep apart below its start (at the x of its end)
MousePoints ==
  {ExampleStart, ExampleEnd}
  \cup {Point(Num(10 + i * CoordStep), Num(60)) : i \in 1..MaxX}
  \cup {Point(Num(50), Num(20 + j * CoordStep)) : j \in 1..MaxY}

\* the viewport of the end-to-end example: scale 1, offset (0,0)
ExampleViewport ==
  [width |-> Num(800), height |-> Num(600), scale |-> Num(1),
   offsetX |-> Zero, offsetY |-> Zero]

ZoomedViewport ==
  [width |-> Num(1600), height |-> Num(1200), scale |-> Num(2),
   offsetX |-> Num(3), offsetY |-> Absent]

HookViewports == {ExampleViewport, ZoomedViewport}

Pages == 1..MaxPage

\* the four useState values together
State(sel, sp, ep, sb) ==
  [isSelecting |-> sel, startPoint |-> sp, endPoint |-> ep, selectionBounds |-> sb]

InitialState == State(FALSE, Null, Null, Null)

Rendered == State(isSelecting, startPoint, endPoint, selectionBounds)

Callback(name, arg) == [callback |-> name, arg |-> arg]

Call(op, fired, threw) == [op |-> op, fired |-> fired, threw |-> threw]

InitSelection ==
  /\ viewport \in HookViewports
  /\ pageNumber \in Pages
  /\ isSelecting = FALSE
  /\ startPoint = Null
  /\ endPoint = Null
  /\ selectionBounds = Null
  /\ queued = InitialState
  /\ last = Call("mount", <<>>, Null)
  /\ tick = FALSE

\* the selection data passed to onSelectionUpdate
SelectionData(sp, point, pdfStart, pdfCurrent) ==
  [startX |-> sp.x, startY |-> sp.y, currentX |-> point.x, currentY |-> point.y,
   width |-> Sub(point.x, sp.x), height |-> Sub(point.y, sp.y),
   pdfCoords |-> [start |-> pdfStart, current |-> pdfCurrent]]

\* startSelection without the guard on isSelecting
startSelection_noGuard(point) ==
  /\ tick' = ~tick
  /\ UNCHANGED <<viewport, pageNumber, isSelecting, startPoint, endPoint, selectionBounds>>
  /\ queued' = State(TRUE, point, point, Null)
  /\ last' = Call("startSelection", <<Callback("onSelectionStart", point)>>, Null)

\* startSelection that leaves the completed selection in place
startSelection_keepsBounds(point) ==
  /\ tick' = ~tick
  /\ UNCHANGED <<viewport, pageNumber, isSelecting, startPoint, endPoint, selectionBounds>>
  /\ IF isSelecting
     THEN /\ last' = Call("startSelection", <<>>, Null)
          /\ UNCHANGED queued
     ELSE /\ queued' = State(TRUE, point, point, queued.selectionBounds)
          /\ last' = Call("startSelection", <<Callback("onSelectionStart", point)>>, Null)

startSelection(point) ==
  /\ tick' = ~tick
  /\ UNCHANGED <<viewport, pageNumber, isSelecting, startPoint, endPoint, selectionBounds>>
  /\ IF isSelecting
     THEN /\ last' = Call("startSelection", <<>>, Null)
          /\ UNCHANGED queued
     ELSE /\ queued' = State(TRUE, point, point, Null)
          /\ last' = Call("startSelection", <<Callback("onSelectionStart", point)>>, Null)

\* updateSelection that checks the start point only, not isSelecting
updateSelection_noIdleGuard(point) ==
  /\ tick' = ~tick
  /\ UNCHANGED <<viewport, pageNumber, isSelecting, startPoint, endPoint, selectionBounds>>
  /\ IF startPoint = Null
     THEN /\ last' = Call("updateSelection", <<>>, Null)
          /\ UNCHANGED queued
     ELSE /\ queued' = [queued EXCEPT !.endPoint = point]
          /\ last' = Call("updateSelection",
                          <<Callback("onSelectionUpdate",
                                     SelectionData(startPoint, point,
                                                   screenToPDF(startPoint, viewport),
                                                   screenToPDF(point, viewport)))>>,
                          Null)

\* updateSelection that ends a drag whose pointer has not moved
updateSelection_endsStalledDrag(point) ==
  /\ tick' = ~tick
  /\ UNCHANGED <<viewport, pageNumber, isSelecting, startPoint, endPoint, selectionBounds>>
  /\ IF ~isSelecting \/ startPoint = Null
     THEN /\ last' = Call("updateSelection", <<>>, Null)
          /\ UNCHANGED queued
     ELSE LET pdfStart   == screenToPDF(startPoint, viewport)
              pdfCurrent == screenToPDF(point, viewport)
          IN  /\ queued' = IF point = endPoint
                         THEN [queued EXCEPT !.isSelecting = FALSE]
                         ELSE [queued EXCEPT !.endPoint = point]
              /\ last' =
                   IF IsThrown(pdfStart)
                   THEN Call("updateSelection", <<>>, pdfStart)
                   ELSE Call("updateSelection",
                             <<Callback("onSelectionUpdate",
                                        SelectionData(startPoint, point, pdfStart, pdfCurrent))>>,
                             Null)

updateSelection(point) ==
  /\ tick' = ~tick
  /\ UNCHANGED <<viewport, pageNumber, isSelecting, startPoint, endPoint, selectionBounds>>
  /\ IF ~isSelecting \/ startPoint = Null
     THEN /\ last' = Call("updateSelection", <<>>, Null)
          /\ UNCHANGED queued
     ELSE LET pdfStart   == screenToPDF(startPoint, viewport)
              pdfCurrent == screenToPDF(point, viewport)
          IN  /\ queued' = [queued EXCEPT !.endPoint = point]
              /\ last' =
                   IF IsThrown(pdfStart)
                   THEN Call("updateSelection", <<>>, pdfStart)
                   ELSE Call("updateSelection",
                             <<Callback("onSelectionUpdate",
                                        SelectionData(startPoint, point, pdfStart, pdfCurrent))>>,
                             Null)

\* completeSelection that leaves isSelecting set
completeSelection_staysSelecting ==
  /\ tick' = ~tick
  /\ UNCHANGED <<viewport, pageNumber, isSelecting, startPoint, endPoint, selectionBounds>>
  /\ IF ~isSelecting \/ startPoint = Null \/ endPoint = Null
     THEN /\ last' = Call("completeSelection", <<>>, Null)
          /\ UNCHANGED queued
     ELSE LET width  == MathAbs(Sub(endPoint.x, startPoint.x))
              height == MathAbs(Sub(endPoint.y, startPoint.y))
              bounds == getSelectionBounds(startPoint, endPoint, viewport, pageNumber)
          IN  IF Less(width, Num(minSelectionSize)) \/ Less(height, Num(minSelectionSize))
              THEN /\ last' = Call("completeSelection", <<>>, Null)
                   /\ UNCHANGED queued
              ELSE /\ queued' = [queued EXCEPT !.selectionBounds = bounds]
                   /\ last' = Call("completeSelection",
                                   <<Callback("onSelectionComplete", bounds)>>, Null)

\* completeSelection that rejects a selection only when both sides are too small
completeSelection_bothTooSmall ==
  /\ tick' = ~tick
  /\ UNCHANGED <<viewport, pageNumber, isSelecting, startPoint, endPoint, selectionBounds>>
  /\ IF ~isSelecting \/ startPoint = Null \/ endPoint = Null
     THEN /\ last' = Call("completeSelection", <<>>, Null)
          /\ UNCHANGED queued
     ELSE LET width  == MathAbs(Sub(endPoint.x, startPoint.x))
              height == MathAbs(Sub(endPoint.y, startPoint.y))
              bounds == getSelectionBounds(startPoint, endPoint, viewport, pageNumber)
          IN  IF Less(width, Num(minSelectionSize)) /\ Less(height, Num(minSelectionSize))
              THEN /\ last' = Call("completeSelection", <<>>, Null)
                   /\ UNCHANGED queued
              ELSE /\ queued' = [queued EXCEPT !.isSelecting = FALSE, !.selectionBounds = bounds]
                   /\ last' = Call("completeSelection",
                                   <<Callback("onSelectionComplete", bounds)>>, Null)

\* completeSelection that also clears the two points of the drag
completeSelection_clearsPoints ==
  /\ tick' = ~tick
  /\ UNCHANGED <<viewport, pageNumber, isSelecting, startPoint, endPoint, selectionBounds>>
  /\ IF ~isSelecting \/ startPoint = Null \/ endPoint = Null
     THEN /\ last' = Call("completeSelection", <<>>, Null)
          /\ UNCHANGED queued
     ELSE LET width  == MathAbs(Sub(endPoint.x, startPoint.x))
              height == MathAbs(Sub(endPoint.y, startPoint.y))
              bounds == getSelectionBounds(startPoint, endPoint, viewport, pageNumber)
          IN  IF Less(width, Num(minSelectionSize)) \/ Less(height, Num(minSelectionSize))
              THEN /\ last' = Call("completeSelection", <<>>, Null)
                   /\ UNCHANGED queued
              ELSE /\ queued' = State(FALSE, Null, Null, bounds)
                   /\ last' = Call("completeSelection",
                                   <<Callback("onSelectionComplete", bounds)>>, Null)

completeSelection ==
  /\ tick' = ~tick
  /\ UNCHANGED <<viewport, pageNumber, isSelecting, startPoint, endPoint, selectionBounds>>
  /\ IF ~isSelecting \/ startPoint = Null \/ endPoint = Null
     THEN /\ last' = Call("completeSelection", <<>>, Null)
          /\ UNCHANGED queued
     ELSE LET width  == MathAbs(Sub(endPoint.x, startPoint.x))
              height == MathAbs(Sub(endPoint.y, startPoint.y))
              bounds == getSelectionBounds(startPoint, endPoint, viewport, pageNumber)
          IN  IF Less(width, Num(minSelectionSize)) \/ Less(height, Num(minSelectionSize))
              THEN /\ last' = Call("completeSelection", <<>>, Null)
                   /\ UNCHANGED queued
              ELSE IF IsThrown(bounds)
              THEN /\ last' = Call("completeSelection", <<>>, bounds)
                   /\ UNCHANGED queued
              ELSE /\ queued' = [queued EXCEPT !.isSelecting = FALSE, !.selectionBounds = bounds]
                   /\ last' = Call("completeSelection",
                                   <<Callback("onSelectionComplete", bounds)>>, Null)

\* cancelSelection that leaves a completed selection in place
cancelSelection_keepsBounds ==
  /\ tick' = ~tick
  /\ UNCHANGED <<viewport, pageNumber, isSelecting, startPoint, endPoint, selectionBounds>>
  /\ queued' = State(FALSE, Null, Null, queued.selectionBounds)
  /\ last' = Call("cancelSelection", <<Callback("onSelectionCancel", Null)>>, Null)

cancelSelection ==
  /\ tick' = ~tick
  /\ UNCHANGED <<viewport, pageNumber, isSelecting, startPoint, endPoint, selectionBounds>>
  /\ queued' = State(FALSE, Null, Null, Null)
  /\ last' = Call("cancelSelection", <<Callback("onSelectionCancel", Null)>>, Null)

\* clearSelection that tells the host of a cancellation
clearSelection_cancels ==
  /\ tick' = ~tick
  /\ UNCHANGED <<viewport, pageNumber, isSelecting, startPoint, endPoint, selectionBounds>>
  /\ queued' = State(FALSE, Null, Null, Null)
  /\ last' = Call("clearSelection", <<Callback("onSelectionCancel", Null)>>, Null)

clearSelection ==
  /\ tick' = ~tick
  /\ UNCHANGED <<viewport, pageNumber, isSelecting, startPoint, endPoint, selectionBounds>>
  /\ queued' = State(FALSE, Null, Null, Null)
  /\ last' = Call("clearSelection", <<>>, Null)

\* React renders the component again: the queued values become the state the
\* callbacks of the new render read
Render ==
  /\ queued # Rendered
  /\ isSelecting' = queued.isSelecting
  /\ startPoint' = queued.startPoint
  /\ endPoint' = queued.endPoint
  /\ selectionBounds' = queued.selectionBounds
  /\ last' = Call("render", <<>>, Null)
  /\ UNCHANGED <<viewport, pageNumber, queued, tick>>

\* the parent renders the hook with another viewport (zoom change)
ChangeViewport(v) ==
  /\ v # viewport
  /\ viewport' = v
  /\ isSelecting' = queued.isSelecting
  /\ startPoint' = queued.startPoint
  /\ endPoint' = queued.endPoint
  /\ selectionBounds' = queued.selectionBounds
  /\ last' = Call("render", <<>>, Null)
  /\ UNCHANGED <<pageNumber, queued, tick>>

\* a page change whose effect leaves a completed selection in place
ChangePage_keepsBounds(n) ==
  /\ n # pageNumber
  /\ pageNumber' = n
  /\ isSelecting' = queued.isSelecting
  /\ startPoint' = queued.startPoint
  /\ endPoint' = queued.endPoint
  /\ selectionBounds' = queued.selectionBounds
  /\ queued' = State(FALSE, Null, Null, queued.selectionBounds)
  /\ last' = Call("pageChange", <<>>, Null)
  /\ UNCHANGED <<viewport, tick>>

\* the parent renders the hook with another pageNumber: the render commits
\* the queued values, then the effect on [pageNumber] runs and sets the four
\* values back; it invokes no callback. The next render commits the reset.
ChangePage(n) ==
  /\ n # pageNumber
  /\ pageNumber' = n
  /\ isSelecting' = queued.isSelecting
  /\ startPoint' = queued.startPoint
  /\ endPoint' = queued.endPoint
  /\ selectionBounds' = queued.selectionBounds
  /\ queued' = State(FALSE, Null, Null, Null)
  /\ last' = Call("pageChange", <<>>, Null)
  /\ UNCHANGED <<viewport, tick>>

NextSelection ==
  \/ \E p \in MousePoints : startSelection(p)
  \/ \E p \in MousePoints : updateSelection(p)
  \/ completeSelection
  \/ cancelSelection
  \/ clearSelection
  \/ Render
  \/ \E v \in HookViewports : ChangeViewport(v)
  \/ \E n \in Pages : ChangePage(n)

----------------------------------------------------------------------------
(* components/SelectionOverlay/SelectionCanvas inside PDFViewerWithSelection *)

VARIABLES
  canvasSelecting,  \* SelectionCanvas: its own isSelecting state
  startCoords,      \* SelectionCanvas: where the mouse went down
  listeners,        \* the hook state read by the handlers that the document
                    \*   listeners hold (that of the render which attached them), or Null
  gesture           \* the mouse-down point and the last mouse position of the current drag

overlayVars == <<canvasSelecting, startCoords, listeners, gesture>>

\* PDFViewerWithSelection passes minSelectionSize: 10 to the hook
viewerMinSelectionSize == 10

\* what a handler of the hook does: the values it leaves queued and the
\* callbacks it invokes
Outcome(state, fired) == [state |-> state, fired |-> fired]

\* startSelection of a render that saw the state c, the queued values being q
startSelectionOf(c, q, point) ==
  IF c.isSelecting
  THEN Outcome(q, <<>>)
  ELSE Outcome(State(TRUE, point, point, Null), <<Callback("onSelectionStart", point)>>)

\* updateSelection of a render that saw the state c
updateSelectionOf(c, q, vp, point) ==
  IF ~c.isSelecting \/ c.startPoint = Null
  THEN Outcome(q, <<>>)
  ELSE LET pdfStart   == screenToPDF(c.startPoint, vp)
           pdfCurrent == screenToPDF(point, vp)
       IN  Outcome([q EXCEPT !.endPoint = point],
                   IF IsThrown(pdfStart)
                   THEN <<>>
                   ELSE <<Callback("onSelectionUpdate",
                                   SelectionData(c.startPoint, point, pdfStart, pdfCurrent))>>)

\* completeSelection of a render that saw the state c
completeSelectionOf(c, q, vp, page, minSize) ==
  IF ~c.isSelecting \/ c.startPoint = Null \/ c.endPoint = Null
  THEN Outcome(q, <<>>)
  ELSE LET width  == MathAbs(Sub(c.endPoint.x, c.startPoint.x))
           height == MathAbs(Sub(c.endPoint.y, c.startPoint.y))
           bounds == getSelectionBounds(c.startPoint, c.endPoint, vp, page)
       IN  IF Less(width, Num(minSize)) \/ Less(height, Num(minSize))
           THEN Outcome(q, <<>>)
           ELSE IF IsThrown(bounds)
           THEN Outcome(q, <<>>)
           ELSE Outcome([q EXCEPT !.isSelecting = FALSE, !.selectionBounds = bounds],
                        <<Callback("onSelectionComplete", bounds)>>)

\* React renders after the event: the hook state becomes q
Commit(q) ==
  /\ isSelecting' = q.isSelecting
  /\ startPoint' = q.startPoint
  /\ endPoint' = q.endPoint
  /\ selectionBounds' = q.selectionBounds
  /\ queued' = q

InitOverlay ==
  /\ canvasSelecting = FALSE
  /\ startCoords = Null
  /\ listeners = Null
  /\ gesture = Null

\* mouse down on the overlay: the overlay starts its drag and calls
\* handleSelectionStart -> startSelection of the current render; the render
\* that follows runs the effect on [isSelecting, startCoords, isActive], which
\* attaches the mousemove and mouseup handlers of that render to the document
handleMouseDown(point) ==
  LET o == startSelectionOf(Rendered, queued, point)
  IN  /\ canvasSelecting' = TRUE
      /\ startCoords' = point
      /\ Commit(o.state)
      /\ listeners' = o.state
      /\ gesture' = [down |-> point, move |-> point]
      /\ last' = Call("mouseDown", o.fired, Null)
      /\ tick' = ~tick
      /\ UNCHANGED <<viewport, pageNumber>>

\* mouse move: the attached handler calls handleSelectionUpdate ->
\* updateSelection of the render that attached it; the overlay state does not
\* change, so the effect does not run again
handleMouseMove(point) ==
  /\ listeners # Null
  /\ LET o == updateSelectionOf(listeners, queued, viewport, point)
     IN  /\ Commit(o.state)
         /\ last' = Call("mouseMove", o.fired, Null)
  /\ gesture' = [gesture EXCEPT !.move = point]
  /\ tick' = ~tick
  /\ UNCHANGED <<viewport, pageNumber, canvasSelecting, startCoords, listeners>>

\* mouse up: the attached handler calls handleSelectionComplete ->
\* completeSelection of the render that attached it, then the overlay ends
\* its drag; the render that follows removes the listeners
handleMouseUp ==
  /\ listeners # Null
  /\ LET o == completeSelectionOf(listeners, queued, viewport, pageNumber,
                                  viewerMinSelectionSize)
     IN  /\ Commit(o.state)
         /\ last' = Call("mouseUp", o.fired, Null)
  /\ canvasSelecting' = FALSE
  /\ startCoords' = Null
  /\ listeners' = Null
  /\ tick' = ~tick
  /\ UNCHANGED <<viewport, pageNumber, gesture>>

\* the Cancel Selection button, rendered while the hook is Selecting
clickCancel ==
  /\ isSelecting
  /\ Commit(InitialState)
  /\ last' = Call("clickCancel", <<Callback("onSelectionCancel", Null)>>, Null)
  /\ tick' = ~tick
  /\ UNCHANGED <<viewport, pageNumber, overlayVars>>

NextOverlay ==
  \/ \E p \in MousePoints : handleMouseDown(p)
  \/ \E p \in MousePoints : handleMouseMove(p)
  \/ handleMouseUp
  \/ clickCancel

----------------------------------------------------------------------------
(* utils/imageExtraction *)

VARIABLES
  container,        \* the canvas descendants of the container, in document order
  argSelection,     \* the selection passed to the extraction
  argScale,         \* the scale argument of extractSelectionFromCanvas, or Absent
  environment,      \* what the browser does: is there a 2D context, which call throws
  extractOp,        \* the extraction function that has been called, "none" before
  sourceCanvas,     \* the canvas the pixels are taken from, or Null
  extraction        \* what the call returned and what it passed to drawImage

extractVars ==
  <<container, argSelection, argScale, environment, extractOp, sourceCanvas, extraction>>

\* the most canvases a container holds
MaxCanvases == 2

TestId(value) == [value |-> value]

\* data-testid values that include 'selection-canvas'
IncludesSelectionCanvas(testid) ==
  testid \in {TestId("selection-canvas"), TestId("page-1-selection-canvas")}

Canvas(id, width, height, testid) ==
  [id |-> id, width |-> Num(width), height |-> Num(height), testid |-> testid]

\* the rendered page (800 x 600), a canvas without data-testid, and two overlays
CanvasElements ==
  {Canvas("page", 800, 600, TestId("pdf-canvas")),
   Canvas("thumbnail", 400, 300, Absent),
   Canvas("overlay", 800, 600, TestId("selection-canvas")),
   Canvas("overlay1", 800, 600, TestId("page-1-selection-canvas"))}

Containers ==
  UNION {[1..n -> CanvasElements] : n \in 0..MaxCanvases}

\* selections inside, across and outside the edges of the canvas, with
\* positive and negative width
Selections ==
  {[x |-> Num(x), y |-> Num(y), width |-> Num(w), height |-> Num(200), scale |-> sc] :
     x \in {-300, 0, 350, 700, 900}, y \in {-200, 500, 700}, w \in {200, -200},
     sc \in {Num(1), Num(2)}}

Environments ==
  [ctx : BOOLEAN, throws : {"nothing", "drawImage", "toDataURL"}]

\* the result of an extraction: the value returned and the arguments of the
\* drawImage call (Null when drawImage was not called)
Extraction(result, drawn) == [result |-> result, drawn |-> drawn]

\* the PNG data URI of the extraction canvas
DataURL(width, height, drawn) ==
  [dataURL |-> "image/png", width |-> width, height |-> height, pixels |-> drawn]

\* the body that copies the full width of the selection, not the clamped one
extractionBody_fullWidth(source, selection, scale, env) ==
  IF ~env.ctx
  THEN Extraction(Null, Null)
  ELSE LET factor        == IF scale = Absent THEN Num(1) ELSE scale
           scaledX       == Mul(selection.x, factor)
           scaledY       == Mul(selection.y, factor)
           scaledWidth   == Mul(selection.width, factor)
           scaledHeight  == Mul(selection.height, factor)
           canvasWidth   == MathAbs(scaledWidth)
           canvasHeight  == MathAbs(scaledHeight)
           sourceWidth   == source.width
           sourceHeight  == source.height
           clampedX      == MathMax(Zero, MathMin(scaledX, sourceWidth))
           clampedY      == MathMax(Zero, MathMin(scaledY, sourceHeight))
           clampedWidth  == MathAbs(scaledWidth)
           clampedHeight == MathMin(MathAbs(scaledHeight), Sub(sourceHeight, clampedY))
           drawn         == [source |-> source.id,
                             sx |-> clampedX, sy |-> clampedY,
                             sw |-> clampedWidth, sh |-> clampedHeight,
                             dx |-> Zero, dy |-> Zero,
                             dw |-> clampedWidth, dh |-> clampedHeight]
       IN  IF LessEq(clampedWidth, Zero) \/ LessEq(clampedHeight, Zero)
           THEN Extraction(Null, Null)
           ELSE IF env.throws = "drawImage"
           THEN Extraction(Thrown("drawImage"), drawn)
           ELSE IF env.throws = "toDataURL"
           THEN Extraction(Thrown("toDataURL"), drawn)
           ELSE Extraction(DataURL(canvasWidth, canvasHeight, drawn), drawn)

\* the body of the try block of extractSelectionFromCanvas
extractionBody(source, selection, scale, env) ==
  IF ~env.ctx
  THEN Extraction(Null, Null)
  ELSE LET factor        == IF scale = Absent THEN Num(1) ELSE scale
           scaledX       == Mul(selection.x, factor)
           scaledY       == Mul(selection.y, factor)
           scaledWidth   == Mul(selection.width, factor)
           scaledHeight  == Mul(selection.height, factor)
           canvasWidth   == MathAbs(scaledWidth)
           canvasHeight  == MathAbs(scaledHeight)
           sourceWidth   == source.width
           sourceHeight  == source.height
           clampedX      == MathMax(Zero, MathMin(scaledX, sourceWidth))
           clampedY      == MathMax(Zero, MathMin(scaledY, sourceHeight))
           clampedWidth  == MathMin(MathAbs(scaledWidth), Sub(sourceWidth, clampedX))
           clampedHeight == MathMin(MathAbs(scaledHeight), Sub(sourceHeight, clampedY))
           drawn         == [source |-> source.id,
                             sx |-> clampedX, sy |-> clampedY,
                             sw |-> clampedWidth, sh |-> clampedHeight,
                             dx |-> Zero, dy |-> Zero,
                             dw |-> clampedWidth, dh |-> clampedHeight]
       IN  IF LessEq(clampedWidth, Zero) \/ LessEq(clampedHeight, Zero)
           THEN Extraction(Null, Null)
           ELSE IF env.throws = "drawImage"
           THEN Extraction(Thrown("drawImage"), drawn)
           ELSE IF env.throws = "toDataURL"
           THEN Extraction(Thrown("toDataURL"), drawn)
           ELSE Extraction(DataURL(canvasWidth, canvasHeight, drawn), drawn)

\* extractSelectionFromCanvas without its try/catch
extractSelectionFromCanvas_noCatch(source, selection, scale, env) ==
  extractionBody(source, selection, scale, env)

\* the catch block turns every exception into null
extractSelectionFromCanvas(source, selection, scale, env) ==
  LET r == extractionBody(source, selection, scale, env)
  IN  IF IsThrown(r.result) THEN Extraction(Null, r.drawn) ELSE r

\* the loop of findPDFCanvas from the i-th canvas on
RECURSIVE firstUntagged(_, _)
firstUntagged(canvases, i) ==
  IF i > Len(canvases) THEN Null
  ELSE IF ~IncludesSelectionCanvas(canvases[i].testid) THEN canvases[i]
  ELSE firstUntagged(canvases, i + 1)

\* findPDFCanvas without the fallback to the first canvas
findPDFCanvas_noFallback(canvases) ==
  firstUntagged(canvases, 1)

findPDFCanvas(canvases) ==
  LET canvas == firstUntagged(canvases, 1)
  IN  IF canvas # Null THEN canvas
      ELSE IF Len(canvases) > 0 THEN canvases[1]
      ELSE Null

\* extractSelectionImage that leaves the scale to its default of 1
extractSelectionImage_unitScale(canvases, selection, env) ==
  LET pdfCanvas == findPDFCanvas(canvases)
  IN  IF pdfCanvas = Null
      THEN Extraction(Null, Null)
      ELSE extractSelectionFromCanvas(pdfCanvas, selection, Absent, env)

extractSelectionImage(canvases, selection, env) ==
  LET pdfCanvas == findPDFCanvas(canvases)
  IN  IF pdfCanvas = Null
      THEN Extraction(Null, Null)
      ELSE extractSelectionFromCanvas(pdfCanvas, selection, selection.scale, env)

ExtractAtRest ==
  /\ extractOp = "none"
  /\ sourceCanvas = Null
  /\ extraction = Null

NoExtraction ==
  /\ container = <<>>
  /\ argSelection = Null
  /\ argScale = Null
  /\ environment = Null
  /\ ExtractAtRest

InitExtract ==
  /\ container \in Containers
  /\ argSelection \in Selections
  /\ argScale \in {Absent, argSelection.scale}
  /\ environment \in Environments
  /\ ExtractAtRest

CallFindPDFCanvas ==
  /\ extractOp = "none"
  /\ extractOp' = "findPDFCanvas"
  /\ sourceCanvas' = findPDFCanvas(container)
  /\ UNCHANGED <<container, argSelection, argScale, environment, extraction>>

CallExtractSelectionFromCanvas ==
  /\ extractOp = "none"
  /\ \E i \in 1..Len(container) :
       /\ sourceCanvas' = container[i]
       /\ extraction' = extractSelectionFromCanvas(container[i], argSelection, argScale,
                                                    environment)
  /\ extractOp' = "extractSelectionFromCanvas"
  /\ UNCHANGED <<container, argSelection, argScale, environment>>

CallExtractSelectionImage ==
  /\ extractOp = "none"
  /\ extractOp' = "extractSelectionImage"
  /\ sourceCanvas' = findPDFCanvas(container)
  /\ extraction' = extractSelectionImage(container, argSelection, environment)
  /\ UNCHANGED <<container, argSelection, argScale, environment>>

NextExtract ==
  \/ CallFindPDFCanvas
  \/ CallExtractSelectionFromCanvas
  \/ CallExtractSelectionImage

----------------------------------------------------------------------------
(* components/PDFViewer: the effect that renders the page *)

VARIABLES
  viewerProps,      \* the pageNumber and scale props of the viewer
  runs,             \* the calls of renderPage so far: where each one stands and
                    \*   the state of the render task it started
  renderTaskRef,    \* renderTaskRef.current: the run whose task it holds, 0 for null
  renderError,      \* useState: the message shown to the user, or Null
  isRendering,      \* useState
  settled,          \* the promise that settled last: its run, how it settled, the error
  pageCanvas        \* the canvas element: the run that set its width and height, and
                    \*   the run whose task drew on it last

viewerVars ==
  <<viewerProps, runs, renderTaskRef, renderError, isRendering, settled, pageCanvas>>

\* the most calls of renderPage in one behaviour
MaxRuns == 2

\* document.numPages
NumPages == 2

ViewerPages == 0..(NumPages + 1)

ViewerScales == {Num(1), Num(2)}

Props(page, scale) == [pageNumber |-> page, scale |-> scale]

\* a call of renderPage: pc is "getPage" while it awaits document.getPage,
\* "render" while it awaits renderTask.promise, "done" after its finally
\* block; task is "none", "running", "cancelled", "finished" or "failed"
Run(page, pc, task) == [pageNumber |-> page, pc |-> pc, task |-> task]

\* the canvas with the width and height of the viewport that the run sizedBy
\* computed from its page and its scale, drawn on last by the task of the
\* run drew (0: none)
PageCanvas(sizedBy, drew) == [sizedBy |-> sizedBy, drew |-> drew]

ErrorOf(name, message) == [name |-> name, message |-> message]

RenderingCancelledException == ErrorOf("RenderingCancelledException", "Rendering cancelled")

\* what getPage or the render task can reject with: Errors, and a value that
\* is not an Error
Rejections ==
  {ErrorOf("Error", "Actual render error"), ErrorOf("Error", "Failed to load page"),
   [value |-> "timeout"]}

InvalidPageNumber(page) ==
  ErrorOf("Error", "Invalid page number: " \o ToString(page) \o ". Document has "
                     \o ToString(NumPages) \o " pages.")

\* canvasRef.current is null when the error branch is rendered
CanvasIsNull == ErrorOf("TypeError", "Cannot set properties of null (setting 'width')")

IsError(err) == "name" \in DOMAIN err

\* err instanceof Error && err.name === 'RenderingCancelledException'
IsCancellation(err) == IsError(err) /\ err.name = "RenderingCancelledException"

\* err instanceof Error ? err.message : 'Unknown rendering error'
ErrorMessage(err) ==
  [message |-> IF IsError(err) THEN err.message ELSE "Unknown rendering error"]

Settled(run, how, err) == [run |-> run, how |-> how, error |-> err]

\* the canvas element is rendered only when there is no render error
CanvasMounted == renderError = Null

\* the catch block that reports a cancellation like any other error
Catch_unclassified(err) ==
  /\ renderError' = ErrorMessage(err)
  /\ renderTaskRef' = 0
  /\ isRendering' = FALSE

\* the catch and finally blocks of renderPage
Catch(err) ==
  /\ IF IsCancellation(err)
     THEN UNCHANGED <<renderError, renderTaskRef>>
     ELSE /\ renderError' = ErrorMessage(err)
          /\ renderTaskRef' = 0
  /\ isRendering' = FALSE

\* cancel() of the task that renderTaskRef holds
Cancelled(rs, ref) ==
  IF ref # 0 /\ rs[ref].task = "running"
  THEN [rs EXCEPT ![ref].task = "cancelled"]
  ELSE rs

ViewerAtRest ==
  /\ viewerProps = Null
  /\ runs = <<>>
  /\ renderTaskRef = 0
  /\ renderError = Null
  /\ isRendering = FALSE
  /\ settled = Null
  /\ pageCanvas = PageCanvas(0, 0)

\* the viewer is mounted with a document: the effect has called renderPage,
\* which awaits getPage, or has thrown on a page number out of range
InitViewer ==
  /\ viewerProps \in {Props(n, sc) : n \in ViewerPages, sc \in ViewerScales}
  /\ renderTaskRef = 0
  /\ settled = Null
  /\ pageCanvas = PageCanvas(0, 0)
  /\ IF viewerProps.pageNumber < 1 \/ viewerProps.pageNumber > NumPages
     THEN /\ runs = <<Run(viewerProps.pageNumber, "done", "none")>>
          /\ renderError = ErrorMessage(InvalidPageNumber(viewerProps.pageNumber))
          /\ isRendering = FALSE
     ELSE /\ runs = <<Run(viewerProps.pageNumber, "getPage", "none")>>
          /\ renderError = Null
          /\ isRendering = TRUE

\* pageNumber or scale changes: the cleanup of the effect cancels the task in
\* renderTaskRef, then the effect calls renderPage unless the canvas is not
\* mounted; renderPage runs up to its first await
ChangeProps(page, scale) ==
  /\ Props(page, scale) # viewerProps
  /\ Len(runs) < MaxRuns
  /\ viewerProps' = Props(page, scale)
  /\ settled' = Null
  /\ UNCHANGED pageCanvas
  /\ LET cleaned == Cancelled(runs, renderTaskRef)
     IN  IF ~CanvasMounted
         THEN /\ runs' = cleaned
              /\ renderTaskRef' = 0
              /\ UNCHANGED <<renderError, isRendering>>
         ELSE IF page < 1 \/ page > NumPages
         THEN /\ runs' = Append(cleaned, Run(page, "done", "none"))
              /\ renderError' = ErrorMessage(InvalidPageNumber(page))
              /\ renderTaskRef' = 0
              /\ isRendering' = FALSE
         ELSE /\ runs' = Append(cleaned, Run(page, "getPage", "none"))
              /\ renderError' = Null
              /\ renderTaskRef' = 0
              /\ isRendering' = TRUE

\* getPage resolves: renderPage sizes the canvas, starts the render task,
\* stores it in renderTaskRef and awaits its promise
GetPageResolves(r) ==
  /\ runs[r].pc = "getPage"
  /\ IF CanvasMounted
     THEN /\ runs' = [runs EXCEPT ![r].pc = "render", ![r].task = "running"]
          /\ renderTaskRef' = r
          /\ pageCanvas' = [pageCanvas EXCEPT !.sizedBy = r]
          /\ settled' = Settled(r, "getPage resolved", Null)
          /\ UNCHANGED <<renderError, isRendering>>
     ELSE /\ runs' = [runs EXCEPT ![r].pc = "done"]
          /\ settled' = Settled(r, "getPage resolved", CanvasIsNull)
          /\ Catch(CanvasIsNull)
          /\ UNCHANGED pageCanvas
  /\ UNCHANGED viewerProps

\* getPage rejects
GetPageRejects(r, err) ==
  /\ runs[r].pc = "getPage"
  /\ runs' = [runs EXCEPT ![r].pc = "done"]
  /\ settled' = Settled(r, "getPage rejected", err)
  /\ Catch(err)
  /\ UNCHANGED <<viewerProps, pageCanvas>>

\* the render task completes: renderPage clears renderTaskRef
RenderTaskResolves(r) ==
  /\ runs[r].pc = "render"
  /\ runs[r].task = "running"
  /\ runs' = [runs EXCEPT ![r].pc = "done", ![r].task = "finished"]
  /\ renderTaskRef' = 0
  /\ isRendering' = FALSE
  /\ settled' = Settled(r, "render resolved", Null)
  /\ pageCanvas' = [pageCanvas EXCEPT !.drew = r]
  /\ UNCHANGED <<viewerProps, renderError>>

\* the render task fails
RenderTaskRejects(r, err) ==
  /\ runs[r].pc = "render"
  /\ runs[r].task = "running"
  /\ runs' = [runs EXCEPT ![r].pc = "done", ![r].task = "failed"]
  /\ settled' = Settled(r, "render rejected", err)
  /\ Catch(err)
  /\ UNCHANGED <<viewerProps, pageCanvas>>

\* the promise of a cancelled render task rejects with RenderingCancelledException
CancelledTaskRejects(r) ==
  /\ runs[r].pc = "render"
  /\ runs[r].task = "cancelled"
  /\ runs' = [runs EXCEPT ![r].pc = "done"]
  /\ settled' = Settled(r, "render cancelled", RenderingCancelledException)
  /\ Catch(RenderingCancelledException)
  /\ UNCHANGED <<viewerProps, pageCanvas>>

NextViewer ==
  \/ \E n \in ViewerPages, sc \in ViewerScales : ChangeProps(n, sc)
  \/ \E r \in 1..Len(runs) : GetPageResolves(r)
  \/ \E r \in 1..Len(runs), err \in Rejections : GetPageRejects(r, err)
  \/ \E r \in 1..Len(runs) : RenderTaskResolves(r)
  \/ \E r \in 1..Len(runs), err \in Rejections : RenderTaskRejects(r, err)
  \/ \E r \in 1..Len(runs) : CancelledTaskRejects(r)

----------------------------------------------------------------------------
(* hooks/usePDFDocument and hooks/useReactPDFDocument *)

VARIABLES
  document,         \* useState values as of the last render: the document (0 for
  isLoading,        \*   null, else the number of the load that obtained it), ...
  error,
  pageCount,
  docQueued,        \* the values the setters have written since
  loads,            \* the calls of loadDocument so far
  disposals,        \* how often dispose() has been invoked on each document
  hookMounted,      \* FALSE after the component using the hook has unmounted
  lastLoad          \* the last call of loadDocument or clearDocument

docVars ==
  <<document, isLoading, error, pageCount, docQueued, loads, disposals, hookMounted, lastLoad>>

\* the most calls of loadDocument in one behaviour
MaxLoads == 2

\* the most calls of dispose() on one document that are followed
MaxDisposals == 3

MAX_FILE_SIZE == 50 * 1024 * 1024

File(name, type, size, numPages) ==
  [kind |-> "File", name |-> name, type |-> type, size |-> size, numPages |-> numPages]

\* a string source; scheme is Absent when the string has none
URLString(scheme, rest, numPages) ==
  [kind |-> "string", scheme |-> scheme, rest |-> rest, numPages |-> numPages]

\* a PDF of the size limit, a text file, a PDF one byte over the limit, an
\* absolute URL and a string without a scheme
Sources ==
  {File("test.pdf", "application/pdf", MAX_FILE_SIZE, 5),
   File("document.txt", "text/plain", 1024, 0),
   File("huge.pdf", "application/pdf", MAX_FILE_SIZE + 1, 9),
   URLString([scheme |-> "https"], "//example.com/test.pdf", 3),
   URLString(Absent, "not-a-valid-url", 0)}

\* new URL(string) throws on a string without a scheme
isValidURL(string) == string.scheme # Absent

Message(text) == [message |-> text]

\* validateFile without the size limit
validateFile_noSizeLimit(file) ==
  IF file.type # "application/pdf"
  THEN Message("Invalid file type. Please select a PDF file.")
  ELSE Null

validateFile(file) ==
  IF file.type # "application/pdf"
  THEN Message("Invalid file type. Please select a PDF file.")
  ELSE IF file.size > MAX_FILE_SIZE
  THEN Message("File size exceeds 50MB limit.")
  ELSE Null

\* the message loadDocument throws before it reaches the PDF engine, or Null
validationError(source) ==
  IF source.kind = "string"
  THEN IF ~isValidURL(source) THEN Message("Invalid URL format.") ELSE Null
  ELSE validateFile(source)

\* what the PDF engine or the file reader rejects with
LoadFailures == {Message("Invalid PDF structure"), [value |-> "aborted"]}

\* err instanceof Error ? err.message : 'Unknown error occurred'
loadErrorMessage(err) ==
  IF "message" \in DOMAIN err THEN err ELSE Message("Unknown error occurred")

DocState(doc, loading, err, pages) ==
  [document |-> doc, isLoading |-> loading, error |-> err, pageCount |-> pages]

DocRendered == DocState(document, isLoading, error, pageCount)

\* a call of loadDocument: pc is "reading" while it awaits fileToArrayBuffer,
\* "loading" while it awaits loadingTask.promise, "done" after its finally
\* block; engine tells whether it has called getDocument, obtained whether
\* the engine has delivered its document
Load(source, pc, engine, obtained) ==
  [source |-> source, pc |-> pc, engine |-> engine, obtained |-> obtained]

\* document.dispose() when document is not null
Disposed(doc) ==
  IF doc = 0 THEN disposals ELSE [disposals EXCEPT ![doc] = @ + 1]

\* setState of a hook whose component has unmounted is ignored
SetState(q) == docQueued' = IF hookMounted THEN q ELSE docQueued

\* the catch and finally blocks of loadDocument
LoadFailed(err) ==
  SetState(DocState(0, FALSE, loadErrorMessage(err), 0))

DocsAtRest ==
  /\ document = 0
  /\ isLoading = FALSE
  /\ error = Null
  /\ pageCount = 0
  /\ docQueued = DocState(0, FALSE, Null, 0)
  /\ loads = <<>>
  /\ disposals = [d \in 1..MaxLoads |-> 0]
  /\ hookMounted = TRUE
  /\ lastLoad = 0

\* loadDocument up to its first await: it disposes the document of the render
\* it belongs to, validates the source and calls the engine or the file reader
loadDocument(source) ==
  /\ hookMounted
  /\ Len(loads) < MaxLoads
  /\ lastLoad' = Len(loads) + 1
  /\ LET started == [docQueued EXCEPT !.error = Null, !.isLoading = TRUE]
         cleared == IF document # 0
                    THEN [started EXCEPT !.document = 0, !.pageCount = 0]
                    ELSE started
         invalid == validationError(source)
     IN  /\ disposals' = Disposed(document)
         /\ IF invalid # Null
            THEN /\ docQueued' = DocState(0, FALSE, invalid, 0)
                 /\ loads' = Append(loads, Load(source, "done", FALSE, FALSE))
            ELSE /\ docQueued' = cleared
                 /\ loads' = Append(loads,
                                    IF source.kind = "string"
                                    THEN Load(source, "loading", TRUE, FALSE)
                                    ELSE Load(source, "reading", FALSE, FALSE))
  /\ UNCHANGED <<document, isLoading, error, pageCount, hookMounted>>

\* fileToArrayBuffer resolves: loadDocument calls getDocument and awaits it
ReadResolves(l) ==
  /\ loads[l].pc = "reading"
  /\ loads' = [loads EXCEPT ![l].pc = "loading", ![l].engine = TRUE]
  /\ UNCHANGED <<document, isLoading, error, pageCount, docQueued, disposals,
                 hookMounted, lastLoad>>

\* fileToArrayBuffer rejects
ReadRejects(l) ==
  /\ loads[l].pc = "reading"
  /\ loads' = [loads EXCEPT ![l].pc = "done"]
  /\ LoadFailed(Message("Failed to read file"))
  /\ UNCHANGED <<document, isLoading, error, pageCount, disposals, hookMounted, lastLoad>>

\* loadingTask.promise resolves with the document
LoadResolves(l) ==
  /\ loads[l].pc = "loading"
  /\ loads' = [loads EXCEPT ![l].pc = "done", ![l].obtained = TRUE]
  /\ SetState(DocState(l, FALSE, Null, loads[l].source.numPages))
  /\ UNCHANGED <<document, isLoading, error, pageCount, disposals, hookMounted, lastLoad>>

\* loadingTask.promise rejects
LoadRejects(l, err) ==
  /\ loads[l].pc = "loading"
  /\ loads' = [loads EXCEPT ![l].pc = "done"]
  /\ LoadFailed(err)
  /\ UNCHANGED <<document, isLoading, error, pageCount, disposals, hookMounted, lastLoad>>

clearDocument ==
  /\ hookMounted
  /\ document # 0 => disposals[document] < MaxDisposals
  /\ disposals' = Disposed(document)
  /\ docQueued' = DocState(0, FALSE, Null, 0)
  /\ lastLoad' = 0
  /\ UNCHANGED <<document, isLoading, error, pageCount, loads, hookMounted>>

\* React renders the hook again; when the document has changed, the cleanup
\* of the effect on [document] disposes the document of the previous render
RenderDocument ==
  /\ hookMounted
  /\ docQueued # DocRendered
  /\ document' = docQueued.document
  /\ isLoading' = docQueued.isLoading
  /\ error' = docQueued.error
  /\ pageCount' = docQueued.pageCount
  /\ disposals' = IF docQueued.document # document THEN Disposed(document) ELSE disposals
  /\ UNCHANGED <<docQueued, loads, hookMounted, lastLoad>>

\* the component unmounts: the cleanup of the effect disposes the document
\* of the last render
UnmountHook ==
  /\ hookMounted
  /\ hookMounted' = FALSE
  /\ disposals' = Disposed(document)
  /\ UNCHANGED <<document, isLoading, error, pageCount, docQueued, loads, lastLoad>>

NextDocs ==
  \/ \E source \in Sources : loadDocument(source)
  \/ \E l \in 1..Len(loads) : ReadResolves(l)
  \/ \E l \in 1..Len(loads) : ReadRejects(l)
  \/ \E l \in 1..Len(loads) : LoadResolves(l)
  \/ \E l \in 1..Len(loads), err \in LoadFailures : LoadRejects(l, err)
  \/ clearDocument
  \/ RenderDocument
  \/ UnmountHook

\* useReactPDFDocument: the values loadDocument leaves queued; it reads no state
ReactDocState(file, loading, err, pages) ==
  [file |-> file, isLoading |-> loading, error |-> err, pageCount |-> pages]

reactLoadDocument(source) ==
  LET invalid == validationError(source)
  IN  IF invalid # Null
      THEN ReactDocState(Null, FALSE, invalid, 0)
      ELSE ReactDocState(source, FALSE, Null, 0)

----------------------------------------------------------------------------
(* Calls of the bounding-box functions *)

VARIABLES
  boxCall,          \* the arguments of the call that was drawn
  transformed,      \* transformBounds(bounds, newScale)
  restored,         \* transformBounds(transformed, bounds.scale)
  clamped,          \* clampToViewport(bounds, viewport)
  dragged,          \* getSelectionBounds(startPoint, endPoint, viewport, pageNumber)
  draggedBack       \* getSelectionBounds(endPoint, startPoint, viewport, pageNumber)

boxVars == <<boxCall, transformed, restored, clamped, dragged, draggedBack>>

\* the scales a box is rescaled to
NewScales == {Rat(1, 2), Num(1), Num(2), Num(3)}

PageViewport == [width |-> Num(800), height |-> Num(600), scale |-> Num(1)]

\* boxes inside the page, across its edges, larger than it and outside it
ClampBoxes ==
  {[x |-> Num(x), y |-> Num(y), width |-> Num(w), height |-> Num(h),
    pageNumber |-> 1, scale |-> Num(1)] :
     x \in {-50, 100, 700, 900}, w \in {0, 200, 900},
     y \in {-50, 100, 700}, h \in {150, 700}}

\* viewports of a drag: valid and invalid zoom, with and without an offset
DragViewports ==
  {[width |-> Num(800), height |-> Num(600), scale |-> s, offsetX |-> ox, offsetY |-> Absent] :
     s \in Scales, ox \in {Absent, Num(1)}}

TransformCall(bounds, newScale) ==
  [op |-> "transformBounds", bounds |-> bounds, newScale |-> newScale]

ClampCall(bounds, vp) ==
  [op |-> "clampToViewport", bounds |-> bounds, viewport |-> vp]

DragCall(from, to, vp, page) ==
  [op |-> "getSelectionBounds", startPoint |-> from, endPoint |-> to,
   viewport |-> vp, pageNumber |-> page]

BoxesAtRest ==
  /\ boxCall = Null
  /\ transformed = Null
  /\ restored = Null
  /\ clamped = Null
  /\ dragged = Null
  /\ draggedBack = Null

\* the arguments of one call are drawn; nothing has been called yet
InitBoxes ==
  /\ transformed = Null
  /\ restored = Null
  /\ clamped = Null
  /\ dragged = Null
  /\ draggedBack = Null
  /\ \/ \E b \in Boxes, s \in NewScales : boxCall = TransformCall(b, s)
     \/ \E b \in ClampBoxes : boxCall = ClampCall(b, PageViewport)
     \/ \E a \in Points, b \in Points, v \in DragViewports, n \in 1..MaxPage :
          boxCall = DragCall(a, b, v, n)

CallTransformBounds ==
  /\ boxCall.op = "transformBounds"
  /\ transformed = Null
  /\ transformed' = transformBounds(boxCall.bounds, boxCall.newScale)
  /\ UNCHANGED <<boxCall, restored, clamped, dragged, draggedBack>>

\* the result is transformed back to the scale of the box
CallTransformBack ==
  /\ transformed # Null
  /\ restored = Null
  /\ restored' = transformBounds(transformed, boxCall.bounds.scale)
  /\ UNCHANGED <<boxCall, transformed, clamped, dragged, draggedBack>>

CallClampToViewport ==
  /\ boxCall.op = "clampToViewport"
  /\ clamped = Null
  /\ clamped' = clampToViewport(boxCall.bounds, boxCall.viewport)
  /\ UNCHANGED <<boxCall, transformed, restored, dragged, draggedBack>>

CallGetSelectionBounds ==
  /\ boxCall.op = "getSelectionBounds"
  /\ dragged = Null
  /\ dragged' = getSelectionBounds(boxCall.startPoint, boxCall.endPoint,
                                   boxCall.viewport, boxCall.pageNumber)
  /\ UNCHANGED <<boxCall, transformed, restored, clamped, draggedBack>>

\* the same drag in the other direction
CallGetSelectionBoundsReversed ==
  /\ boxCall.op = "getSelectionBounds"
  /\ draggedBack = Null
  /\ draggedBack' = getSelectionBounds(boxCall.endPoint, boxCall.startPoint,
                                       boxCall.viewport, boxCall.pageNumber)
  /\ UNCHANGED <<boxCall, transformed, restored, clamped, dragged>>

NextBoxes ==
  \/ CallTransformBounds
  \/ CallTransformBack
  \/ CallClampToViewport
  \/ CallGetSelectionBounds
  \/ CallGetSelectionBoundsReversed

----------------------------------------------------------------------------
(* hooks/useScrollPan *)

VARIABLES
  scrollContainer,  \* containerRef.current: Null or the attached element
  panStartRef,      \* panStartRef.current
  isPanning,        \* useState values as of the last render
  scrollPosition,
  scrollQueued,     \* the values the setters have written since
  onPageBoundary,   \* Null, or the direction the host was last told
  panListeners,     \* the mousemove and mouseup listeners are on the document
  scrollCall        \* the last call of scrollTo that reached its body

scrollVars ==
  <<scrollContainer, panStartRef, isPanning, scrollPosition, scrollQueued, onPageBoundary,
    panListeners, scrollCall>>

SCROLL_STEP == Num(50)

PAGE_SCROLL_FACTOR == Rat(4, 5)

Element(scrollLeft, scrollTop, scrollWidth, scrollHeight, clientWidth, clientHeight) ==
  [scrollLeft |-> scrollLeft, scrollTop |-> scrollTop,
   scrollWidth |-> scrollWidth, scrollHeight |-> scrollHeight,
   clientWidth |-> clientWidth, clientHeight |-> clientHeight]

\* a page taller than its container, one wider than it, and one that fits
\* into it
Elements ==
  {Element(Zero, Zero, Num(800), Num(700), Num(800), Num(600)),
   Element(Zero, Zero, Num(850), Num(600), Num(800), Num(600)),
   Element(Zero, Zero, Num(600), Num(400), Num(800), Num(600))}

\* the targets of direct calls of scrollTo
ScrollTargets == {Point(Num(2000), Num(1500)), Point(Num(-100), Num(-50)), Point(Num(100), Num(50))}

WheelDeltas == {Point(Zero, Num(100)), Point(Zero, Num(-100)), Point(Num(50), Zero)}

ClientPoints == {Point(Num(300), Num(300)), Point(Num(350), Num(200))}

Keys ==
  {"ArrowLeft", "ArrowRight", "ArrowUp", "ArrowDown", "PageUp", "PageDown", "Home", "End", "a"}

ScrollState(panning, position) == [isPanning |-> panning, scrollPosition |-> position]

ScrollRendered == ScrollState(isPanning, scrollPosition)

\* a call of scrollTo by via; clamped tells whether it changed its target
ScrollCall(via, moved) ==
  [via |-> via, clamped |-> moved,
   tick |-> IF scrollCall = Null THEN TRUE ELSE ~scrollCall.tick]

\* the host passed a callback
HasPageBoundary == onPageBoundary # Absent

\* scrollTo without the lower clamp
scrollTo_noLowerClamp(via, x, y) ==
  /\ scrollContainer # Null
  /\ LET maxScrollLeft == Sub(scrollContainer.scrollWidth, scrollContainer.clientWidth)
         maxScrollTop == Sub(scrollContainer.scrollHeight, scrollContainer.clientHeight)
         clampedX == MathMin(x, maxScrollLeft)
         clampedY == MathMin(y, maxScrollTop)
     IN  /\ scrollContainer' = [scrollContainer EXCEPT !.scrollLeft = clampedX,
                                                      !.scrollTop = clampedY]
         /\ scrollQueued' = [scrollQueued EXCEPT !.scrollPosition = Point(clampedX, clampedY)]
  /\ scrollCall' = ScrollCall(via, Point(x, y) # Point(scrollContainer'.scrollLeft,
                                                      scrollContainer'.scrollTop))

\* scrollTo(x, y) on an attached container, called by via
scrollTo(via, x, y) ==
  /\ scrollContainer # Null
  /\ LET maxScrollLeft == Sub(scrollContainer.scrollWidth, scrollContainer.clientWidth)
         maxScrollTop == Sub(scrollContainer.scrollHeight, scrollContainer.clientHeight)
         clampedX == MathMax(Zero, MathMin(x, maxScrollLeft))
         clampedY == MathMax(Zero, MathMin(y, maxScrollTop))
     IN  /\ scrollContainer' = [scrollContainer EXCEPT !.scrollLeft = clampedX,
                                                      !.scrollTop = clampedY]
         /\ scrollQueued' = [scrollQueued EXCEPT !.scrollPosition = Point(clampedX, clampedY)]
  /\ scrollCall' = ScrollCall(via, Point(x, y) # Point(scrollContainer'.scrollLeft,
                                                      scrollContainer'.scrollTop))

\* a call of onPageBoundary
Direction(direction) == [direction |-> direction]

\* the direction checkPageBoundaries reports to the host, or Null
checkPageBoundaries(newY, currentY) ==
  IF scrollContainer = Null \/ ~HasPageBoundary THEN Null
  ELSE LET maxScrollTop == Sub(scrollContainer.scrollHeight, scrollContainer.clientHeight)
       IN  IF LessEq(maxScrollTop, currentY) /\ Less(currentY, newY) THEN Direction("next")
           ELSE IF LessEq(currentY, Zero) /\ Less(newY, currentY) THEN Direction("prev")
           ELSE Null

ScrollAtRest ==
  /\ scrollContainer = Null
  /\ panStartRef = Null
  /\ isPanning = FALSE
  /\ scrollPosition = Point(Zero, Zero)
  /\ scrollQueued = ScrollState(FALSE, Point(Zero, Zero))
  /\ onPageBoundary = Absent
  /\ panListeners = FALSE
  /\ scrollCall = Null

\* the hook is mounted with or without a page boundary callback
InitScroll ==
  /\ scrollContainer = Null
  /\ panStartRef = Null
  /\ isPanning = FALSE
  /\ scrollPosition = Point(Zero, Zero)
  /\ scrollQueued = ScrollState(FALSE, Point(Zero, Zero))
  /\ onPageBoundary \in {Absent, Null}
  /\ panListeners = FALSE
  /\ scrollCall = Null

attachContainer(element) ==
  /\ scrollContainer' = element
  /\ scrollQueued' = IF element # Null
                     THEN [scrollQueued EXCEPT
                             !.scrollPosition = Point(element.scrollLeft, element.scrollTop)]
                     ELSE scrollQueued
  /\ UNCHANGED <<panStartRef, isPanning, scrollPosition, onPageBoundary, panListeners,
                 scrollCall>>

\* the host calls scrollTo
CallScrollTo(target) ==
  /\ scrollTo("scrollTo", target.x, target.y)
  /\ UNCHANGED <<panStartRef, isPanning, scrollPosition, onPageBoundary, panListeners>>

centerContent ==
  /\ scrollContainer # Null
  /\ LET centerX == MathMax(Zero, Div(Sub(scrollContainer.scrollWidth,
                                          scrollContainer.clientWidth), Num(2)))
         centerY == MathMax(Zero, Div(Sub(scrollContainer.scrollHeight,
                                          scrollContainer.clientHeight), Num(2)))
     IN  scrollTo("centerContent", centerX, centerY)
  /\ UNCHANGED <<panStartRef, isPanning, scrollPosition, onPageBoundary, panListeners>>

\* mousedown of the left button on the container
handlePanMouseDown(at) ==
  /\ scrollContainer # Null
  /\ scrollQueued' = [scrollQueued EXCEPT !.isPanning = TRUE]
  /\ panStartRef' = [x |-> at.x, y |-> at.y,
                     scrollX |-> scrollContainer.scrollLeft,
                     scrollY |-> scrollContainer.scrollTop]
  /\ panListeners' = TRUE
  /\ UNCHANGED <<scrollContainer, isPanning, scrollPosition, onPageBoundary, scrollCall>>

\* mousemove on the document during a pan
handlePanMouseMove(at) ==
  /\ panListeners
  /\ panStartRef # Null
  /\ LET deltaX == Sub(panStartRef.x, at.x)
         deltaY == Sub(panStartRef.y, at.y)
     IN  scrollTo("pan", Add(panStartRef.scrollX, deltaX), Add(panStartRef.scrollY, deltaY))
  /\ UNCHANGED <<panStartRef, isPanning, scrollPosition, onPageBoundary, panListeners>>

\* mouseup on the document during a pan
handlePanMouseUp ==
  /\ panListeners
  /\ scrollQueued' = [scrollQueued EXCEPT !.isPanning = FALSE]
  /\ panStartRef' = Null
  /\ panListeners' = FALSE
  /\ UNCHANGED <<scrollContainer, isPanning, scrollPosition, onPageBoundary, scrollCall>>

handleWheel(delta) ==
  /\ scrollContainer # Null
  /\ LET newY == Add(scrollContainer.scrollTop, delta.y)
         boundary == checkPageBoundaries(newY, scrollContainer.scrollTop)
     IN  IF boundary # Null
         THEN /\ onPageBoundary' = boundary
              /\ UNCHANGED <<scrollContainer, scrollQueued, scrollCall>>
         ELSE /\ scrollTo("wheel", Add(scrollContainer.scrollLeft, delta.x), newY)
              /\ UNCHANGED onPageBoundary
  /\ UNCHANGED <<panStartRef, isPanning, scrollPosition, panListeners>>

\* the scroll event of the container
handleScroll ==
  /\ scrollContainer # Null
  /\ scrollQueued' = [scrollQueued EXCEPT
                        !.scrollPosition = Point(scrollContainer.scrollLeft,
                                                 scrollContainer.scrollTop)]
  /\ UNCHANGED <<scrollContainer, panStartRef, isPanning, scrollPosition, onPageBoundary,
                 panListeners, scrollCall>>

\* what a key adds to the scroll position
KeyDelta(key) ==
  CASE key = "ArrowLeft"  -> Point(Sub(Zero, SCROLL_STEP), Zero)
    [] key = "ArrowRight" -> Point(SCROLL_STEP, Zero)
    [] key = "ArrowUp"    -> Point(Zero, Sub(Zero, SCROLL_STEP))
    [] key = "ArrowDown"  -> Point(Zero, SCROLL_STEP)
    [] key = "PageUp"     -> Point(Zero, Sub(Zero, Mul(scrollContainer.clientHeight,
                                                      PAGE_SCROLL_FACTOR)))
    [] key = "PageDown"   -> Point(Zero, Mul(scrollContainer.clientHeight, PAGE_SCROLL_FACTOR))
    [] OTHER              -> Point(Zero, Zero)

handleKeyDown(key) ==
  /\ scrollContainer # Null
  /\ LET delta == KeyDelta(key)
         boundary == IF key \in {"ArrowUp", "ArrowDown"}
                     THEN checkPageBoundaries(Add(scrollContainer.scrollTop, delta.y),
                                              scrollContainer.scrollTop)
                     ELSE Null
     IN  IF boundary # Null
         THEN /\ onPageBoundary' = boundary
              /\ UNCHANGED <<scrollContainer, scrollQueued, scrollCall>>
         ELSE /\ UNCHANGED onPageBoundary
              /\ IF key = "Home"
                 THEN scrollTo("key", Zero, Zero)
                 ELSE IF key = "End"
                 THEN scrollTo("key",
                               Sub(scrollContainer.scrollWidth, scrollContainer.clientWidth),
                               Sub(scrollContainer.scrollHeight, scrollContainer.clientHeight))
                 ELSE IF delta # Point(Zero, Zero)
                 THEN scrollTo("key", Add(scrollContainer.scrollLeft, delta.x),
                               Add(scrollContainer.scrollTop, delta.y))
                 ELSE UNCHANGED <<scrollContainer, scrollQueued, scrollCall>>
  /\ UNCHANGED <<panStartRef, isPanning, scrollPosition, panListeners>>

RenderScroll ==
  /\ scrollQueued # ScrollRendered
  /\ isPanning' = scrollQueued.isPanning
  /\ scrollPosition' = scrollQueued.scrollPosition
  /\ UNCHANGED <<scrollContainer, panStartRef, scrollQueued, onPageBoundary, panListeners,
                 scrollCall>>

NextScroll ==
  \/ \E element \in Elements \cup {Null} : attachContainer(element)
  \/ \E target \in ScrollTargets : CallScrollTo(target)
  \/ centerContent
  \/ \E at \in ClientPoints : handlePanMouseDown(at)
  \/ \E at \in ClientPoints : handlePanMouseMove(at)
  \/ handlePanMouseUp
  \/ \E delta \in WheelDeltas : handleWheel(delta)
  \/ handleScroll
  \/ \E key \in Keys : handleKeyDown(key)
  \/ RenderScroll

----------------------------------------------------------------------------
(* components/PixelUrl *)

VARIABLES
  pixelContainer,   \* containerRef.current: Null or the element with its canvases
  pixelEnvironment, \* what the browser does to the extraction canvas
  hostCalls,        \* how often the host's onSelectionComplete was invoked
  hostResult        \* what it last received

pixelVars == <<pixelContainer, pixelEnvironment, hostCalls, hostResult>>

\* the most calls of the host's onSelectionComplete that are followed
MaxHostCalls == 2

\* the viewer with its page and overlay, and with the overlay alone
PixelContainers ==
  {[canvases |-> <<Canvas("overlay", 800, 600, TestId("selection-canvas")),
                  Canvas("page", 800, 600, TestId("pdf-canvas"))>>],
   [canvases |-> <<Canvas("overlay", 800, 600, TestId("selection-canvas"))>>]}

\* the browser extracts, gives no 2d context, or fails to encode
PixelEnvironments ==
  {[ctx |-> TRUE, throws |-> "nothing"],
   [ctx |-> FALSE, throws |-> "nothing"],
   [ctx |-> TRUE, throws |-> "toDataURL"]}

\* the ends of the example drag and a point 2px to the right of its start
HostPoints == {ExampleStart, ExampleEnd, Point(Num(12), Num(60))}

\* what the host's onSelectionComplete receives
Result(image, coordinates) == [image |-> image, coordinates |-> coordinates]

PixelAtRest ==
  /\ pixelContainer = Null
  /\ pixelEnvironment = Null
  /\ hostCalls = 0
  /\ hostResult = Null

InitPixelUrl ==
  /\ pixelContainer \in PixelContainers \cup {Null}
  /\ pixelEnvironment \in PixelEnvironments
  /\ hostCalls = 0
  /\ hostResult = Null

\* the handler that invokes the host only when an image was extracted
handleSelectionCompleteInternal_imageOnly(selection) ==
  LET extractedImage ==
        IF pixelContainer # Null
        THEN extractSelectionImage(pixelContainer.canvases, selection, pixelEnvironment).result
        ELSE Null
  IN  IF extractedImage = Null
      THEN UNCHANGED <<hostCalls, hostResult>>
      ELSE /\ hostCalls' = hostCalls + 1
           /\ hostResult' = Result(extractedImage, selection)

handleSelectionCompleteInternal(selection) ==
  LET extractedImage ==
        IF pixelContainer # Null
        THEN extractSelectionImage(pixelContainer.canvases, selection, pixelEnvironment).result
        ELSE Null
  IN  /\ hostCalls' = hostCalls + 1
      /\ hostResult' = Result(extractedImage, selection)

\* completeSelection of the hook in ReactPDFViewerWithSelection, whose
\* onSelectionComplete is handleSelectionCompleteInternal
PixelCompleteSelection ==
  /\ hostCalls < MaxHostCalls
  /\ LET o == completeSelectionOf(Rendered, queued, viewport, pageNumber,
                                  viewerMinSelectionSize)
     IN  /\ queued' = o.state
         /\ last' = Call("completeSelection", o.fired, Null)
         /\ IF o.fired = <<>>
            THEN UNCHANGED <<hostCalls, hostResult>>
            ELSE handleSelectionCompleteInternal(o.fired[1].arg)
  /\ tick' = ~tick
  /\ UNCHANGED <<viewport, pageNumber, isSelecting, startPoint, endPoint, selectionBounds,
                 pixelContainer, pixelEnvironment>>

NextPixelUrl ==
  \/ PixelCompleteSelection
  \/ /\ \/ \E point \in HostPoints : startSelection(point)
        \/ \E point \in HostPoints : updateSelection(point)
        \/ cancelSelection
        \/ clearSelection
        \/ Render
     /\ UNCHANGED pixelVars

----------------------------------------------------------------------------
(* components/SelectionOverlay/SelectionCanvas: props, mounting and the
   listeners it keeps on the document *)

VARIABLES
  canvasMounted,      \* the SelectionCanvas component is mounted
  isActive,           \* its isActive prop, as of the last render
  drag,               \* its state as of the last render: isSelecting and startCoords
  documentListeners,  \* the mousemove/mouseup handlers it has on the document: the
                      \*   values their render closed over, or Null when there are none
  canvasLast          \* the last operation and the callbacks it invoked

canvasVars == <<canvasMounted, isActive, drag, documentListeners, canvasLast>>

\* where the mouse goes down and where it moves, in canvas coordinates
CanvasPoints == {Point(x, y) : x \in {0, 10, 50}, y \in {0, 20, 60}}

\* useState(false), useState(null)
Drag(selecting, coords) == [isSelecting |-> selecting, startCoords |-> coords]

\* what handleMouseMove and handleMouseUp of one render read
Closure(state, active) ==
  [isSelecting |-> state.isSelecting, startCoords |-> state.startCoords, isActive |-> active]

\* the effect on [isSelecting, startCoords, isActive] that runs after the
\* cleanup of the previous one removed its handlers: it adds the handlers of
\* this render if isSelecting, none otherwise
listenerEffect(state, active) ==
  IF state.isSelecting THEN Closure(state, active) ELSE Null

CanvasAtRest ==
  /\ canvasMounted = FALSE
  /\ isActive = FALSE
  /\ drag = Drag(FALSE, Null)
  /\ documentListeners = Null
  /\ canvasLast = Call("none", <<>>, Null)

\* the first render and its effect
MountCanvas(active) ==
  /\ ~canvasMounted
  /\ canvasMounted' = TRUE
  /\ isActive' = active
  /\ drag' = Drag(FALSE, Null)
  /\ documentListeners' = listenerEffect(Drag(FALSE, Null), active)
  /\ canvasLast' = Call("mount", <<>>, Null)

\* onMouseDown of the canvas, then the render and the effect
canvasMouseDown(point) ==
  /\ canvasMounted
  /\ IF ~isActive
     THEN /\ canvasLast' = Call("mouseDown", <<>>, Null)
          /\ UNCHANGED <<canvasMounted, isActive, drag, documentListeners>>
     ELSE /\ drag' = Drag(TRUE, point)
          /\ documentListeners' = listenerEffect(Drag(TRUE, point), isActive)
          /\ canvasLast' = Call("mouseDown", <<Callback("onSelectionStart", point)>>, Null)
          /\ UNCHANGED <<canvasMounted, isActive>>

\* mousemove on the document: the handler the document holds runs
canvasMouseMove(point) ==
  /\ documentListeners # Null
  /\ LET c == documentListeners
     IN  IF ~c.isSelecting \/ c.startCoords = Null \/ ~c.isActive
         THEN canvasLast' = Call("mouseMove", <<>>, Null)
         ELSE canvasLast' =
                Call("mouseMove",
                     <<Callback("onSelectionUpdate",
                                [startX |-> c.startCoords.x, startY |-> c.startCoords.y,
                                 currentX |-> point.x, currentY |-> point.y,
                                 width |-> point.x - c.startCoords.x,
                                 height |-> point.y - c.startCoords.y])>>,
                     Null)
  /\ UNCHANGED <<canvasMounted, isActive, drag, documentListeners>>

\* mouseup on the document: the handler the document holds runs, then the
\* render and the effect
canvasMouseUp ==
  /\ documentListeners # Null
  /\ LET c == documentListeners
     IN  IF ~c.isSelecting \/ c.startCoords = Null \/ ~c.isActive
         THEN /\ canvasLast' = Call("mouseUp", <<>>, Null)
              /\ UNCHANGED <<drag, documentListeners>>
         ELSE /\ drag' = Drag(FALSE, Null)
              /\ documentListeners' = listenerEffect(Drag(FALSE, Null), isActive)
              /\ canvasLast' =
                   Call("mouseUp",
                        <<Callback("onSelectionComplete",
                                   [x |-> c.startCoords.x, y |-> c.startCoords.y,
                                    width |-> 40, height |-> 40])>>,
                        Null)
  /\ UNCHANGED <<canvasMounted, isActive>>

\* the parent renders the canvas with another isActive: the effect's
\* dependencies changed, so its cleanup and then the effect run
SetActive(active) ==
  /\ canvasMounted
  /\ active # isActive
  /\ isActive' = active
  /\ documentListeners' = listenerEffect(drag, active)
  /\ canvasLast' = Call(IF active THEN "activate" ELSE "deactivate", <<>>, Null)
  /\ UNCHANGED <<canvasMounted, drag>>

\* the parent stops rendering the canvas: the cleanup of the last effect runs
UnmountCanvas ==
  /\ canvasMounted
  /\ canvasMounted' = FALSE
  /\ documentListeners' = Null
  /\ canvasLast' = Call("unmount", <<>>, Null)
  /\ UNCHANGED <<isActive, drag>>

NextCanvas ==
  \/ \E active \in BOOLEAN : MountCanvas(active)
  \/ \E point \in CanvasPoints : canvasMouseDown(point)
  \/ \E point \in CanvasPoints : canvasMouseMove(point)
  \/ canvasMouseUp
  \/ \E active \in BOOLEAN : SetActive(active)
  \/ UnmountCanvas

----------------------------------------------------------------------------
(* hooks/useCanvasSelection with a viewport whose scale is not positive *)

\* scales that screenToPDF rejects
InvalidScales == {Num(0), Num(-1)}

\* the render computes currentSelection from startPoint and endPoint with
\* screenToPDF: it throws when both are set and the scale is not positive
currentSelectionThrows(state, vp) ==
  /\ state.startPoint # Null
  /\ state.endPoint # Null
  /\ IsThrown(screenToPDF(state.startPoint, vp))

\* a render of the hook has thrown: the component is gone
HookCrashed == last.op = "render" /\ last.threw # Null

\* the owner of the viewport object sets its scale; the handlers of the last
\* render hold that object and read the new scale when they are called
SpoilViewport(sc) ==
  /\ viewport.scale # sc
  /\ viewport' = [viewport EXCEPT !.scale = sc]
  /\ last' = Call("viewport", <<>>, Null)
  /\ UNCHANGED <<pageNumber, isSelecting, startPoint, endPoint, selectionBounds, queued, tick>>

\* React renders the queued state; the render throws in currentSelection
RenderHook ==
  IF currentSelectionThrows(queued, viewport)
  THEN /\ queued # Rendered
       /\ last' = Call("render", <<>>, InvalidScale)
       /\ UNCHANGED <<viewport, pageNumber, isSelecting, startPoint, endPoint,
                      selectionBounds, queued, tick>>
  ELSE Render

NextInvalidScale ==
  /\ ~HookCrashed
  /\ \/ \E p \in MousePoints : startSelection(p)
     \/ \E p \in MousePoints : updateSelection(p)
     \/ completeSelection
     \/ cancelSelection
     \/ RenderHook
     \/ \E sc \in InvalidScales : SpoilViewport(sc)

----------------------------------------------------------------------------
(* Specifications *)

\* the parts that have a specification of their own further down
restVars == <<docVars, boxVars, scrollVars, pixelVars, canvasVars>>

RestAtRest == DocsAtRest /\ BoxesAtRest /\ ScrollAtRest /\ PixelAtRest /\ CanvasAtRest

vars == <<transformVars, selectionVars, overlayVars, extractVars, viewerVars, restVars>>

TransformAtRest ==
  /\ matrix = Null
  /\ viaMatrix = Null
  /\ direct = Null
  /\ screenCoords = Null
  /\ argViewport = Null
  /\ pdfCoords = Null
  /\ backToScreen = Null
  /\ argBox = Null
  /\ normalizedOnce = Null
  /\ normalizedTwice = Null

\* the selection machine; no coordinate function is called on its own
Init ==
  /\ RestAtRest
  /\ InitSelection
  /\ TransformAtRest
  /\ InitOverlay
  /\ NoExtraction
  /\ ViewerAtRest

Next == NextSelection /\ UNCHANGED <<transformVars, overlayVars, extractVars, viewerVars, restVars>>

Spec == Init /\ [][Next]_vars

\* the coordinate functions called on their own; the selection machine is at rest
InitCalls ==
  /\ RestAtRest
  /\ InitTransform
  /\ InitSelection
  /\ viewport = ExampleViewport
  /\ pageNumber = 1
  /\ InitOverlay
  /\ NoExtraction
  /\ ViewerAtRest

NextCalls == NextTransform /\ UNCHANGED <<selectionVars, overlayVars, extractVars, viewerVars, restVars>>

SpecTransform == InitCalls /\ [][NextCalls]_vars

\* the overlay driving the hook inside PDFViewerWithSelection: mouse events
\* on the rendered page, each followed by a render
InitGestures ==
  /\ RestAtRest
  /\ InitSelection
  /\ viewport = ExampleViewport
  /\ pageNumber = 1
  /\ InitOverlay
  /\ TransformAtRest
  /\ NoExtraction
  /\ ViewerAtRest

NextGestures == NextOverlay /\ UNCHANGED <<transformVars, extractVars, viewerVars, restVars>>

SpecOverlay == InitGestures /\ [][NextGestures]_vars

\* the extraction functions called on a container; nothing else moves
SelectionAtRest ==
  /\ InitSelection
  /\ viewport = ExampleViewport
  /\ pageNumber = 1
  /\ InitOverlay

InitExtractions ==
  /\ RestAtRest
  /\ InitExtract
  /\ SelectionAtRest
  /\ TransformAtRest
  /\ ViewerAtRest

NextExtractions ==
  NextExtract /\ UNCHANGED <<transformVars, selectionVars, overlayVars, viewerVars, restVars>>

SpecExtract == InitExtractions /\ [][NextExtractions]_vars

\* the viewer rendering pages; nothing else moves
InitRendering ==
  /\ RestAtRest
  /\ InitViewer
  /\ SelectionAtRest
  /\ TransformAtRest
  /\ NoExtraction

NextRendering ==
  NextViewer /\ UNCHANGED <<transformVars, selectionVars, overlayVars, extractVars, restVars>>

SpecViewer == InitRendering /\ [][NextRendering]_vars

\* the document hook loading, clearing and unmounting; nothing else moves
InitDocs ==
  /\ DocsAtRest
  /\ BoxesAtRest
  /\ ScrollAtRest
  /\ PixelAtRest
  /\ SelectionAtRest
  /\ TransformAtRest
  /\ NoExtraction
  /\ ViewerAtRest
  /\ CanvasAtRest

NextLoads ==
  NextDocs /\ UNCHANGED <<transformVars, selectionVars, overlayVars, extractVars, viewerVars,
                          boxVars, scrollVars, pixelVars, canvasVars>>

SpecDocs == InitDocs /\ [][NextLoads]_vars

\* one call of transformBounds, clampToViewport or getSelectionBounds
InitBoxCalls ==
  /\ InitBoxes
  /\ DocsAtRest
  /\ ScrollAtRest
  /\ PixelAtRest
  /\ SelectionAtRest
  /\ TransformAtRest
  /\ NoExtraction
  /\ ViewerAtRest
  /\ CanvasAtRest

NextBoxCalls ==
  NextBoxes /\ UNCHANGED <<transformVars, selectionVars, overlayVars, extractVars, viewerVars,
                           docVars, scrollVars, pixelVars, canvasVars>>

SpecBoxes == InitBoxCalls /\ [][NextBoxCalls]_vars

\* scrolling and panning a container; nothing else moves
InitScrolling ==
  /\ InitScroll
  /\ PixelAtRest
  /\ DocsAtRest
  /\ BoxesAtRest
  /\ SelectionAtRest
  /\ TransformAtRest
  /\ NoExtraction
  /\ ViewerAtRest
  /\ CanvasAtRest

NextScrolling ==
  NextScroll /\ UNCHANGED <<transformVars, selectionVars, overlayVars, extractVars, viewerVars,
                            docVars, boxVars, pixelVars, canvasVars>>

SpecScroll == InitScrolling /\ [][NextScrolling]_vars

\* PixelUrl: the selection machine with the host's callback behind it
InitHost ==
  /\ InitPixelUrl
  /\ SelectionAtRest
  /\ DocsAtRest
  /\ BoxesAtRest
  /\ ScrollAtRest
  /\ TransformAtRest
  /\ NoExtraction
  /\ ViewerAtRest
  /\ CanvasAtRest

NextHost ==
  NextPixelUrl /\ UNCHANGED <<transformVars, overlayVars, extractVars, viewerVars,
                              docVars, boxVars, scrollVars, canvasVars>>

SpecPixelUrl == InitHost /\ [][NextHost]_vars

\* the SelectionCanvas component on its own; nothing else moves
InitCanvas ==
  /\ CanvasAtRest
  /\ DocsAtRest
  /\ BoxesAtRest
  /\ ScrollAtRest
  /\ PixelAtRest
  /\ SelectionAtRest
  /\ TransformAtRest
  /\ NoExtraction
  /\ ViewerAtRest

NextCanvasEvents ==
  NextCanvas /\ UNCHANGED <<transformVars, selectionVars, overlayVars, extractVars, viewerVars,
                            docVars, boxVars, scrollVars, pixelVars>>

SpecCanvas == InitCanvas /\ [][NextCanvasEvents]_vars

\* the selection hook whose viewport gets a scale that is not positive
InitSpoiled ==
  /\ SelectionAtRest
  /\ CanvasAtRest
  /\ DocsAtRest
  /\ BoxesAtRest
  /\ ScrollAtRest
  /\ PixelAtRest
  /\ TransformAtRest
  /\ NoExtraction
  /\ ViewerAtRest

NextSpoiled ==
  NextInvalidScale /\ UNCHANGED <<transformVars, overlayVars, extractVars, viewerVars, restVars>>

SpecInvalidScale == InitSpoiled /\ [][NextSpoiled]_vars

----------------------------------------------------------------------------
(* Properties of the coordinate transformation functions *)

\* C1: converting a screen point to document coordinates and back with the
\* same viewport (scale > 0, any offsets, absent offsets counting as 0)
\* yields the point again.
RoundTrip ==
  backToScreen # Null => backToScreen = screenCoords

\* a round trip at scale 3/2 with one offset set and the other absent
RoundTripWitness ==
  /\ backToScreen # Null
  /\ argViewport.scale = Rat(3, 2)
  /\ argViewport.offsetX = Num(1)
  /\ argViewport.offsetY = Absent
  /\ screenCoords = Point(Num(2), Num(-1))

\* C40: the matrix form agrees with the direct form: for every viewport v and
\* point c, applyTransform(c, createTransformMatrix(v)) equals pdfToScreen(c, v),
\* and createTransformMatrix(v) is [scale, 0, 0, scale, offsetX, offsetY]
\* with an absent offset counting as 0.
MatrixAgreesWithDirect ==
  /\ matrix # Null =>
       matrix = Matrix(argViewport.scale, Zero, Zero, argViewport.scale,
                       IF argViewport.offsetX = Absent THEN Zero ELSE argViewport.offsetX,
                       IF argViewport.offsetY = Absent THEN Zero ELSE argViewport.offsetY)
  /\ (viaMatrix # Null /\ direct # Null) => viaMatrix = direct

\* the point (1, 2) has gone both ways through the viewport of scale 2 with
\* no offsetX and offsetY 1: (2, 5) either way
MatrixAgreesWitness ==
  /\ screenCoords = Point(Num(1), Num(2))
  /\ argViewport # Null
  /\ argViewport.scale = Num(2)
  /\ argViewport.offsetX = Absent
  /\ argViewport.offsetY = Num(1)
  /\ matrix = Matrix(Num(2), Zero, Zero, Num(2), Zero, Num(1))
  /\ viaMatrix = Point(Num(2), Num(5))
  /\ direct = Point(Num(2), Num(5))

\* C2: screenToPDF throws InvalidScale, and returns no coordinates, exactly
\* when the scale of the viewport is 0 or negative, whatever the point.
InvalidScaleRejected ==
  pdfCoords # Null =>
    IF LessEq(argViewport.scale, Zero)
    THEN pdfCoords = InvalidScale
    ELSE DOMAIN pdfCoords = {"x", "y"}

\* screenToPDF has thrown for a zero scale
InvalidScaleWitness ==
  /\ pdfCoords = InvalidScale
  /\ argViewport.scale = Zero
  /\ screenCoords = Point(Num(1), Num(2))

\* C3: normalizeSelection returns the same rectangle with its top-left
\* corner as x, y, non-negative width and height, normalized = true, and the
\* page number and scale of its argument.
NormalizationCorrect ==
  normalizedOnce # Null =>
    /\ LessEq(Zero, normalizedOnce.width)
    /\ LessEq(Zero, normalizedOnce.height)
    /\ normalizedOnce.normalized = TRUE
    /\ normalizedOnce.x = MathMin(argBox.x, Add(argBox.x, argBox.width))
    /\ normalizedOnce.y = MathMin(argBox.y, Add(argBox.y, argBox.height))
    /\ normalizedOnce.width = MathAbs(argBox.width)
    /\ normalizedOnce.height = MathAbs(argBox.height)
    /\ normalizedOnce.pageNumber = argBox.pageNumber
    /\ normalizedOnce.scale = argBox.scale
    /\ argBox = ExampleBox =>
         /\ normalizedOnce.x = Num(10)
         /\ normalizedOnce.y = Num(20)
         /\ normalizedOnce.width = Num(40)
         /\ normalizedOnce.height = Num(80)

\* a box dragged up and to the left has been normalized
NormalizationWitness ==
  /\ normalizedOnce # Null
  /\ Less(argBox.width, Zero)
  /\ Less(argBox.height, Zero)
  /\ normalizedOnce.x # argBox.x

\* C4: normalizing the result of normalizeSelection again changes no field.
NormalizationIdempotent ==
  normalizedTwice # Null => normalizedTwice = normalizedOnce

\* a box with a negative width has been normalized twice
IdempotenceWitness ==
  /\ normalizedTwice # Null
  /\ Less(argBox.width, Zero)
  /\ normalizedTwice.x = Add(argBox.x, argBox.width)

----------------------------------------------------------------------------
(* Properties of the selection machine *)

\* a step is a call of the handler op
Called(op) == last'.op = op /\ tick' # tick

\* the size check of completeSelection on the points of the last render
LargeEnough ==
  /\ LessEq(Num(minSelectionSize), MathAbs(Sub(endPoint.x, startPoint.x)))
  /\ LessEq(Num(minSelectionSize), MathAbs(Sub(endPoint.y, startPoint.y)))

\* the machine is Selecting, with both points of the drag
Selecting == isSelecting /\ startPoint # Null /\ endPoint # Null

\* what onSelectionComplete receives in the end-to-end example
ExampleBounds ==
  [x |-> Num(10), y |-> Num(20), width |-> Num(40), height |-> Num(40),
   pageNumber |-> 1, scale |-> Num(1), normalized |-> TRUE]

\* C5: completeSelection called in Selecting with both sides of the drag at
\* least minSelectionSize sets isSelecting to false, sets selectionBounds to
\* getSelectionBounds(startPoint, endPoint, viewport, pageNumber) and invokes
\* onSelectionComplete with that value and nothing else; the drag
\* (10,20) -> (50,60) at scale 1, offset (0,0), page 1 delivers
\* {x:10, y:20, width:40, height:40, pageNumber:1, scale:1, normalized:true}.
CompletionDelivers ==
  [][(Called("completeSelection") /\ Selecting /\ LargeEnough) =>
       LET bounds == getSelectionBounds(startPoint, endPoint, viewport, pageNumber)
       IN  /\ queued'.isSelecting = FALSE
           /\ queued'.selectionBounds = bounds
           /\ last'.fired = <<Callback("onSelectionComplete", bounds)>>
           /\ (/\ startPoint = ExampleStart
               /\ endPoint = ExampleEnd
               /\ viewport = ExampleViewport
               /\ pageNumber = 1) => bounds = ExampleBounds]_vars

\* the drag of the example has been completed
CompletionWitness ==
  /\ last.op = "completeSelection"
  /\ last.fired = <<Callback("onSelectionComplete", ExampleBounds)>>
  /\ startPoint = ExampleStart
  /\ endPoint = ExampleEnd
  /\ queued.isSelecting = FALSE
  /\ queued.selectionBounds = ExampleBounds

\* C6: completeSelection called in Selecting with a side of the drag below
\* minSelectionSize changes nothing: the machine stays Selecting with the
\* same points, selectionBounds stays null, no callback is invoked.
MinimumSizeGate ==
  [][(Called("completeSelection") /\ Selecting /\ ~LargeEnough) =>
       /\ UNCHANGED <<isSelecting, startPoint, endPoint, selectionBounds, queued>>
       /\ selectionBounds' = Null
       /\ last'.fired = <<>>
       /\ last'.threw = Null]_vars

\* completeSelection has been called on a drag CoordStep wide and 40 high
MinimumSizeWitness ==
  /\ last.op = "completeSelection"
  /\ last.fired = <<>>
  /\ isSelecting
  /\ startPoint = ExampleStart
  /\ endPoint = Point(Num(10 + CoordStep), Num(60))
  /\ queued = Rendered

\* C7: startSelection called while the machine is Selecting changes none of
\* isSelecting, startPoint, endPoint, selectionBounds and does not invoke
\* onSelectionStart.
DuplicateStartIgnored ==
  [][(Called("startSelection") /\ isSelecting) =>
       /\ UNCHANGED <<isSelecting, startPoint, endPoint, selectionBounds, queued>>
       /\ last'.fired = <<>>]_vars

\* startSelection has been called during the drag that began at (10,20)
DuplicateStartWitness ==
  /\ last.op = "startSelection"
  /\ last.fired = <<>>
  /\ isSelecting
  /\ startPoint = ExampleStart
  /\ queued.startPoint = ExampleStart

\* C8: updateSelection and completeSelection called while the machine is
\* Idle change no state field, invoke no callback and throw nothing.
IdleIgnoresUpdateAndComplete ==
  [][((Called("updateSelection") \/ Called("completeSelection")) /\ ~isSelecting) =>
       /\ UNCHANGED <<isSelecting, startPoint, endPoint, selectionBounds, queued>>
       /\ last'.fired = <<>>
       /\ last'.threw = Null]_vars

\* updateSelection has been called in Idle, the points of the completed drag still stored
IdleIgnoresWitness ==
  /\ last.op = "updateSelection"
  /\ last.fired = <<>>
  /\ ~isSelecting
  /\ startPoint # Null
  /\ queued = Rendered

\* C9: onSelectionStart is invoked once per gesture: whenever it is invoked,
\* the machine is Idle, that is, every setIsSelecting(true) of an earlier
\* startSelection has been followed by a setIsSelecting(false).
StartOncePerGesture ==
  [][(Called("startSelection") /\ last'.fired # <<>>) => ~queued.isSelecting]_vars

\* C10: onSelectionComplete is invoked once per completed gesture: whenever
\* it is invoked, a gesture is open, that is, no completion or cancellation
\* has happened since the startSelection that began it.
CompleteOncePerGesture ==
  [][(Called("completeSelection") /\ last'.fired # <<>>) => queued.isSelecting]_vars

----------------------------------------------------------------------------
(* Properties of cancellation and of the page change *)

\* C11: cancelSelection called in any state (Idle, Selecting, Idle with a
\* completed selection) sets isSelecting to false and startPoint, endPoint and
\* selectionBounds to null, and invokes onSelectionCancel.
CancelResets ==
  [][Called("cancelSelection") =>
       /\ queued' = InitialState
       /\ last'.fired = <<Callback("onSelectionCancel", Null)>>]_vars

\* cancelSelection has been called on a completed selection that the last
\* render still shows
CancelWitness ==
  /\ last.op = "cancelSelection"
  /\ ~isSelecting
  /\ selectionBounds # Null
  /\ queued = InitialState
  /\ last.fired = <<Callback("onSelectionCancel", Null)>>

\* C12: when pageNumber changes, whether a selection is in progress or
\* completed, the effect resets isSelecting to false and startPoint, endPoint
\* and selectionBounds to null, and onSelectionCancel is not invoked.
PageChangeResets ==
  [][pageNumber' # pageNumber =>
       /\ queued' = InitialState
       /\ last'.fired = <<>>]_vars

\* the page has changed during a drag: the render of the new page still shows
\* the drag, the effect has reset it
PageChangeWitness ==
  /\ last.op = "pageChange"
  /\ isSelecting
  /\ startPoint # Null
  /\ queued = InitialState
  /\ last.fired = <<>>

\* C13: in every reachable state startPoint is non-null only while the
\* machine is Selecting (it would be cleared on cancellation and on completion).
StartPointOnlyWhileSelecting ==
  startPoint # Null => isSelecting

\* C13, as the code has it: startPoint is non-null only while the machine is
\* Selecting or holds a completed selection; completeSelection leaves
\* startPoint and endPoint as they are, and cancellation, clearSelection and
\* the page change clear them.
StartPointHeldUntilCleared ==
  /\ [](startPoint # Null => (isSelecting \/ selectionBounds # Null))
  /\ [](queued.startPoint # Null => (queued.isSelecting \/ queued.selectionBounds # Null))
  /\ [][Called("completeSelection") =>
         /\ queued'.startPoint = queued.startPoint
         /\ queued'.endPoint = queued.endPoint]_vars
  /\ [][(Called("cancelSelection") \/ Called("clearSelection") \/ pageNumber' # pageNumber) =>
         queued'.startPoint = Null]_vars

\* the example drag has been completed and rendered: the machine is Idle and
\* still holds the start point of the drag
StartPointHeldWitness ==
  /\ ~isSelecting
  /\ startPoint = ExampleStart
  /\ endPoint = ExampleEnd
  /\ selectionBounds # Null
  /\ queued = Rendered

----------------------------------------------------------------------------
(* Properties of the overlay driving the hook *)

\* C14: every selection delivered to onSelectionComplete by a mouse-up is
\* computed from the mouse-down point and the last mouse position of the
\* gesture that this mouse-up ends, never from the points of an earlier gesture.
DeliveredFromOwnGesture ==
  (last.op = "mouseUp" /\ last.fired # <<>>) =>
    last.fired[1].arg = getSelectionBounds(gesture.down, gesture.move, viewport, pageNumber)

----------------------------------------------------------------------------
(* Properties of the pixel extraction *)

Extracted == extractOp \in {"extractSelectionFromCanvas", "extractSelectionImage"}

\* the scale the extraction multiplies the selection with
UsedScale ==
  IF extractOp = "extractSelectionImage" THEN argSelection.scale
  ELSE IF argScale = Absent THEN Num(1) ELSE argScale

\* C15: whenever the extraction calls drawImage, the source rectangle lies
\* inside the source canvas (0 <= clampedX, clampedX + clampedWidth <=
\* canvas width, the same vertically) and has positive width and height; a
\* selection with x = 700 and width 200 on a canvas 800 wide copies width 100.
DrawnInsideCanvas ==
  (Extracted /\ extraction.drawn # Null) =>
    LET d == extraction.drawn
    IN  /\ d.source = sourceCanvas.id
        /\ LessEq(Zero, d.sx)
        /\ LessEq(Zero, d.sy)
        /\ LessEq(Add(d.sx, d.sw), sourceCanvas.width)
        /\ LessEq(Add(d.sy, d.sh), sourceCanvas.height)
        /\ Less(Zero, d.sw)
        /\ Less(Zero, d.sh)
        /\ (/\ Mul(argSelection.x, UsedScale) = Num(700)
            /\ MathAbs(Mul(argSelection.width, UsedScale)) = Num(200)
            /\ sourceCanvas.width = Num(800)) => d.sw = Num(100)

\* the selection (700, 500, 200 x 200) has been extracted from the 800 x 600
\* page: drawImage got the source rectangle (700, 500, 100 x 100)
DrawnInsideWitness ==
  /\ extractOp = "extractSelectionFromCanvas"
  /\ sourceCanvas.id = "page"
  /\ argSelection.x = Num(700) /\ argSelection.y = Num(500)
  /\ argSelection.width = Num(200) /\ argScale = Num(1)
  /\ extraction.drawn # Null
  /\ extraction.drawn.sx = Num(700) /\ extraction.drawn.sy = Num(500)
  /\ extraction.drawn.sw = Num(100) /\ extraction.drawn.sh = Num(100)

\* the scaled rectangle of the selection has no point inside the source canvas
EntirelyOutside ==
  LET left   == Mul(argSelection.x, UsedScale)
      top    == Mul(argSelection.y, UsedScale)
      right  == Add(left, MathAbs(Mul(argSelection.width, UsedScale)))
      bottom == Add(top, MathAbs(Mul(argSelection.height, UsedScale)))
  IN  \/ LessEq(sourceCanvas.width, left)
      \/ LessEq(sourceCanvas.height, top)
      \/ LessEq(right, Zero)
      \/ LessEq(bottom, Zero)

\* C16: for every selection whose scaled rectangle lies entirely outside the
\* source canvas (beyond the right or bottom edge, or entirely left of or above
\* the origin) the extraction returns null and never calls drawImage.
OutsideReturnsNull ==
  (Extracted /\ sourceCanvas # Null /\ environment.ctx /\ EntirelyOutside) =>
    /\ extraction.result = Null
    /\ extraction.drawn = Null

\* C17: the extraction functions never throw: they return a data URI or null,
\* and null when the 2D context is missing, when the container has no canvas,
\* and when drawImage or toDataURL throws.
ExtractionNeverThrows ==
  Extracted =>
    /\ ~IsThrown(extraction.result)
    /\ (extraction.result = Null \/ DOMAIN extraction.result = DOMAIN DataURL(Zero, Zero, Null))
    /\ ~environment.ctx => extraction.result = Null
    /\ sourceCanvas = Null => extraction.result = Null
    /\ (extraction.drawn # Null /\ environment.throws # "nothing") => extraction.result = Null

\* drawImage has been called and has thrown: the extraction returned null
NeverThrowsWitness ==
  /\ extractOp = "extractSelectionImage"
  /\ environment.throws = "drawImage"
  /\ extraction.drawn # Null
  /\ extraction.result = Null

\* C33: when the extraction returns an image, the new canvas measures
\* |selection.width * scale| x |selection.height * scale| (not clamped), the
\* region is drawn at (0, 0) with the clamped width and height, destination
\* size equal to source size; extractSelectionImage takes selection.scale as
\* the scale.
CanvasUnclampedRegionClamped ==
  (Extracted /\ extraction.result # Null) =>
    LET d            == extraction.drawn
        scaledX      == Mul(argSelection.x, UsedScale)
        scaledY      == Mul(argSelection.y, UsedScale)
        scaledWidth  == MathAbs(Mul(argSelection.width, UsedScale))
        scaledHeight == MathAbs(Mul(argSelection.height, UsedScale))
        clampedX     == MathMax(Zero, MathMin(scaledX, sourceCanvas.width))
        clampedY     == MathMax(Zero, MathMin(scaledY, sourceCanvas.height))
    IN  /\ extraction.result.width = scaledWidth
        /\ extraction.result.height = scaledHeight
        /\ d # Null
        /\ extraction.result.pixels = d
        /\ d.dx = Zero /\ d.dy = Zero
        /\ d.dw = d.sw /\ d.dh = d.sh
        /\ d.sw = MathMin(scaledWidth, Sub(sourceCanvas.width, clampedX))
        /\ d.sh = MathMin(scaledHeight, Sub(sourceCanvas.height, clampedY))

\* extractSelectionImage has extracted a selection of scale 2 that crosses the
\* right edge of the 800 x 600 page: the canvas is 400 wide, the region 100
CanvasUnclampedWitness ==
  /\ extractOp = "extractSelectionImage"
  /\ sourceCanvas # Null
  /\ sourceCanvas.id = "page"
  /\ argSelection.scale = Num(2) /\ argSelection.x = Num(350)
  /\ extraction.result # Null
  /\ extraction.result.width = Num(400) /\ extraction.result.height = Num(400)
  /\ extraction.drawn.sw = Num(100) /\ extraction.drawn.dw = Num(100)
  /\ extraction.drawn.dx = Zero /\ extraction.drawn.dy = Zero

\* C39: whenever the extraction calls drawImage, the source rectangle lies
\* inside the scaled rectangle of the selection, [x * scale, x * scale +
\* |width * scale|] x [y * scale, y * scale + |height * scale|], also when
\* the selection starts left of or above the origin of the canvas.
DrawnInsideSelection ==
  (Extracted /\ extraction.drawn # Null) =>
    LET d      == extraction.drawn
        left   == Mul(argSelection.x, UsedScale)
        top    == Mul(argSelection.y, UsedScale)
        right  == Add(left, MathAbs(Mul(argSelection.width, UsedScale)))
        bottom == Add(top, MathAbs(Mul(argSelection.height, UsedScale)))
    IN  /\ LessEq(left, d.sx)
        /\ LessEq(top, d.sy)
        /\ LessEq(Add(d.sx, d.sw), right)
        /\ LessEq(Add(d.sy, d.sh), bottom)

\* the canvases that are not tagged as the selection overlay, by position
Untagged ==
  {i \in 1..Len(container) : ~IncludesSelectionCanvas(container[i].testid)}

\* C18: findPDFCanvas returns the first canvas in document order that is not
\* tagged as the selection overlay; when every canvas is tagged it returns
\* the very first canvas; it returns null exactly when there is no canvas.
FindsFirstUntagged ==
  extractOp = "findPDFCanvas" =>
    /\ Untagged # {} =>
         \E i \in Untagged : /\ sourceCanvas = container[i]
                              /\ \A k \in Untagged : i <= k
    /\ (Untagged = {} /\ Len(container) > 0) => sourceCanvas = container[1]
    /\ sourceCanvas = Null <=> Len(container) = 0

\* findPDFCanvas has been called on two overlays and returned the first
FindsFallbackWitness ==
  /\ extractOp = "findPDFCanvas"
  /\ Len(container) = 2
  /\ Untagged = {}
  /\ container[1] # container[2]
  /\ sourceCanvas = container[1]

----------------------------------------------------------------------------
(* Properties of the page rendering *)

\* the runs whose render task is in flight and has not been cancelled
Uncancelled == {r \in 1..Len(runs) : runs[r].task = "running"}

\* C19: at no time are two uncancelled render tasks of the viewer in flight,
\* whenever the props change, also while a render still waits for getPage.
OneRenderInFlight ==
  Cardinality(Uncancelled) <= 1

\* C20: a rejection of the render task that is a cancellation never sets the
\* render error, while any other rejection of getPage or of the render task
\* sets the render error to its message.
RejectionsClassified ==
  [][(settled' # Null /\ runs' # runs) =>
       /\ settled'.how = "render cancelled" => renderError' = renderError
       /\ settled'.how \in {"getPage rejected", "render rejected"} =>
            /\ IsError(settled'.error) => renderError' = [message |-> settled'.error.message]
            /\ ~IsError(settled'.error) => renderError' = [message |-> "Unknown rendering error"]]_vars

\* the task of the first render has been cancelled by a change of the props
\* and its promise has rejected: no error is shown and the next render goes on
RejectionsClassifiedWitness ==
  /\ settled # Null
  /\ settled.how = "render cancelled"
  /\ settled.run = 1
  /\ renderError = Null
  /\ Len(runs) = 2
  /\ runs[2].pc = "getPage"

\* the page number of the props is outside [1, numPages]
InvalidPage(props) == props.pageNumber < 1 \/ props.pageNumber > NumPages

\* the render error shown is the 'Invalid page number' error of some page
IsInvalidPageError(shown) ==
  \E n \in ViewerPages : shown = ErrorMessage(InvalidPageNumber(n))

\* C21: for every pageNumber outside [1, numPages] the viewer shows an
\* 'Invalid page number' render error, at mount and after a change of the
\* props, and neither getPage nor render is called for that page.
InvalidPageSurfaced ==
  /\ (viewerProps # Null /\ Len(runs) = 1 /\ InvalidPage(viewerProps)
        /\ runs[1].pageNumber = viewerProps.pageNumber /\ settled = Null) =>
       IsInvalidPageError(renderError)
  /\ [][(viewerProps' # viewerProps /\ InvalidPage(viewerProps')) =>
         /\ IsInvalidPageError(renderError')
         /\ \A r \in 1..Len(runs') :
              (runs'[r].pageNumber = viewerProps'.pageNumber) =>
                (runs'[r].pc = "done" /\ runs'[r].task = "none")]_vars

\* C36: render errors are recoverable: whenever the viewer shows a render
\* error and the props change to a page that can be rendered, a new render
\* attempt starts (renderPage is called and awaits getPage) and the error is
\* cleared.
RenderErrorRecoverable ==
  [][(/\ renderError # Null
      /\ viewerProps' # viewerProps
      /\ ~InvalidPage(viewerProps')) =>
       /\ renderError' = Null
       /\ Len(runs') = Len(runs) + 1
       /\ runs'[Len(runs')] = Run(viewerProps'.pageNumber, "getPage", "none")]_vars

\* every call of renderPage has run to its end
AllSettled == \A r \in 1..Len(runs) : runs[r].pc = "done"

\* C37: after any sequence of pageNumber/scale changes, once every getPage
\* and render promise has settled, the canvas has the dimensions of the most
\* recently requested (pageNumber, scale) and the task that drew on it last
\* is the one of that request, in whatever order the getPage promises resolve.
\* (While no render error is shown every change of the props calls
\* renderPage, so the most recent request is the last run.)
CanvasShowsLatestProps ==
  (AllSettled /\ renderError = Null /\ pageCanvas.drew # 0) =>
    /\ pageCanvas.sizedBy = Len(runs)
    /\ pageCanvas.drew = Len(runs)
    /\ runs[pageCanvas.drew].pageNumber = viewerProps.pageNumber

\* a completed selection: normalized, of the page given, and the machine Idle
CompletedOn(state, page) ==
  /\ state.selectionBounds.pageNumber = page
  /\ state.selectionBounds.normalized
  /\ LessEq(Zero, state.selectionBounds.width)
  /\ LessEq(Zero, state.selectionBounds.height)
  /\ ~state.isSelecting

\* C29: in every reachable state with selectionBounds non-null, its
\* pageNumber equals the active page number, it is normalized and the
\* machine is Idle.
SelectionOnActivePage ==
  selectionBounds # Null => CompletedOn(Rendered, pageNumber)

\* C30: a drag stays open: updateSelection, a duplicate startSelection and a
\* completeSelection below the minimum size leave the machine Selecting, and
\* isSelecting becomes false only through a completeSelection that meets the
\* minimum size, cancelSelection, clearSelection or a change of the page.
DragStaysOpen ==
  [][/\ (queued.isSelecting /\ ~queued'.isSelecting) =>
          \/ Called("completeSelection") /\ Selecting /\ LargeEnough
          \/ Called("cancelSelection")
          \/ Called("clearSelection")
          \/ pageNumber' # pageNumber
     /\ (isSelecting /\ ~isSelecting') => ~queued.isSelecting
     /\ (/\ Selecting
         /\ \/ Called("updateSelection")
            \/ Called("startSelection")
            \/ Called("completeSelection") /\ ~LargeEnough) =>
          /\ queued'.isSelecting = queued.isSelecting
          /\ isSelecting']_vars

\* a drag has gone through an update, a second startSelection and a
\* completeSelection below the minimum size, and the machine is Selecting
DragStaysOpenWitness ==
  /\ Selecting
  /\ queued.isSelecting
  /\ endPoint # startPoint
  /\ ~LargeEnough
  /\ last.op = "completeSelection"
  /\ last.fired = <<>>
  /\ queued = Rendered

\* C31: clearSelection, from any state, sets selectionBounds, startPoint and
\* endPoint to null and isSelecting to false, and invokes no callback.
ClearResetsSilently ==
  [][Called("clearSelection") =>
       /\ queued'.selectionBounds = Null
       /\ queued'.startPoint = Null
       /\ queued'.endPoint = Null
       /\ queued'.isSelecting = FALSE
       /\ last'.fired = <<>>
       /\ last'.threw = Null]_vars

\* clearSelection has been called on a completed selection that the last
\* render still shows, with the points of its drag
ClearWitness ==
  /\ last.op = "clearSelection"
  /\ selectionBounds # Null
  /\ startPoint # Null
  /\ endPoint # Null
  /\ queued = InitialState
  /\ last.fired = <<>>

\* C34: in every reachable state of the selection machine, in the rendered
\* state and in the state the setters have queued alike, isSelecting = true
\* implies that startPoint and endPoint are set and selectionBounds is null:
\* starting a gesture discards the selection completed before.
SelectingHasPointsNoBounds ==
  /\ isSelecting => (startPoint # Null /\ endPoint # Null /\ selectionBounds = Null)
  /\ queued.isSelecting =>
       (queued.startPoint # Null /\ queued.endPoint # Null /\ queued.selectionBounds = Null)

\* startSelection has been called with a completed selection on display: the
\* gesture is open and the completed selection is gone
SelectingDiscardsWitness ==
  /\ last.op = "startSelection"
  /\ last.fired # <<>>
  /\ selectionBounds # Null
  /\ queued.isSelecting
  /\ queued.startPoint # Null /\ queued.endPoint # Null
  /\ queued.selectionBounds = Null

\* C35: when updateSelection or completeSelection is called in Selecting
\* while viewport.scale <= 0, the call throws InvalidScale, invokes no
\* callback and leaves the machine as it was: nothing is queued for
\* isSelecting, startPoint, endPoint or selectionBounds.
ScaleErrorLeavesMachine ==
  [][(/\ Called("updateSelection") \/ Called("completeSelection")
      /\ isSelecting
      /\ LessEq(viewport.scale, Zero))
       => /\ last'.threw = InvalidScale
          /\ last'.fired = <<>>
          /\ queued' = queued
          /\ Rendered' = Rendered]_vars

----------------------------------------------------------------------------
(* Properties of the document hooks *)

Settling == \A l \in 1..Len(loads) : loads[l].pc = "done"

\* C22: every document obtained by usePDFDocument has dispose() invoked
\* exactly once over its lifetime: never twice, and once the hook has
\* unmounted and every load has settled, never zero times.
DisposedExactlyOnce ==
  /\ \A d \in 1..MaxLoads : disposals[d] <= 1
  /\ (~hookMounted /\ Settling) =>
       \A l \in 1..Len(loads) : loads[l].obtained => disposals[l] = 1

\* a file that is not a PDF, a file over 50MB, or a string that is no URL
Rejectable(source) ==
  \/ source.kind = "File" /\ source.type # "application/pdf"
  \/ source.kind = "File" /\ source.size > 50 * 1024 * 1024
  \/ source.kind = "string" /\ source.scheme = Absent

ValidationMessages ==
  {Message("Invalid file type. Please select a PDF file."),
   Message("File size exceeds 50MB limit."),
   Message("Invalid URL format.")}

\* C26: loadDocument with a file whose type is not application/pdf, a file
\* larger than 50MB or a string that is not a URL ends with error set to the
\* validation message, the document (the file, in useReactPDFDocument) null,
\* pageCount 0 and isLoading false, and never calls getDocument for it.
ValidationRejects ==
  /\ [](\A l \in 1..Len(loads) : Rejectable(loads[l].source) => ~loads[l].engine)
  /\ [][(Len(loads') = Len(loads) + 1 /\ Rejectable(loads'[Len(loads')].source)) =>
          LET call == loads'[Len(loads')]
              react == reactLoadDocument(call.source)
          IN  /\ call.pc = "done"
              /\ docQueued'.error \in ValidationMessages
              /\ docQueued'.document = 0
              /\ docQueued'.pageCount = 0
              /\ docQueued'.isLoading = FALSE
              /\ react.error = docQueued'.error
              /\ react.file = Null
              /\ react.pageCount = 0
              /\ react.isLoading = FALSE]_vars

\* an oversize PDF was rejected while an earlier document was shown
ValidationRejectsWitness ==
  /\ Len(loads) = 2
  /\ lastLoad = 2
  /\ loads[2].source.kind = "File"
  /\ loads[2].source.size > 50 * 1024 * 1024
  /\ document = 1
  /\ docQueued = DocState(0, FALSE, Message("File size exceeds 50MB limit."), 0)

\* C38: with overlapping calls of loadDocument, once every load has settled
\* (and the hook has rendered), document and pageCount are those of the most
\* recently requested source, in whatever order the loads resolve.
LatestLoadWins ==
  (/\ hookMounted
   /\ lastLoad # 0
   /\ Settling
   /\ docQueued = DocRendered) =>
    IF loads[lastLoad].obtained
    THEN document = lastLoad /\ pageCount = loads[lastLoad].source.numPages
    ELSE document = 0 /\ pageCount = 0

----------------------------------------------------------------------------
(* Properties of the bounding-box functions *)

\* C23: clampToViewport returns a box that does not exceed the viewport:
\* 0 <= x, 0 <= y, x + width <= viewport.width, y + height <= viewport.height,
\* and width and height are only shrunk and never negative.
ClampedInsideViewport ==
  clamped # Null =>
    LET box == boxCall.bounds
        vp == boxCall.viewport
    IN  /\ LessEq(Zero, clamped.x)
        /\ LessEq(Zero, clamped.y)
        /\ LessEq(Add(clamped.x, clamped.width), vp.width)
        /\ LessEq(Add(clamped.y, clamped.height), vp.height)
        /\ LessEq(clamped.width, box.width)
        /\ LessEq(clamped.height, box.height)
        /\ LessEq(Zero, clamped.width)
        /\ LessEq(Zero, clamped.height)

\* C24: transformBounds(box, newScale) multiplies x, y, width and height by
\* newScale / box.scale, keeps pageNumber and sets scale to newScale, and
\* transforming the result back to box.scale gives the box again.
TransformBoundsRescales ==
  /\ transformed # Null =>
       LET box == boxCall.bounds
           ratio == Div(boxCall.newScale, box.scale)
       IN  /\ transformed.x = Mul(box.x, ratio)
           /\ transformed.y = Mul(box.y, ratio)
           /\ transformed.width = Mul(box.width, ratio)
           /\ transformed.height = Mul(box.height, ratio)
           /\ transformed.pageNumber = box.pageNumber
           /\ transformed.scale = boxCall.newScale
  /\ restored # Null => restored = boxCall.bounds

\* the box {x:50, y:20, width:-40, height:80} of scale 1 went to scale 1/2
\* and back
TransformBoundsWitness ==
  /\ boxCall = TransformCall(ExampleBox, Rat(1, 2))
  /\ transformed # Null
  /\ restored # Null
  /\ transformed.x = Num(25)
  /\ transformed.width = Num(-20)
  /\ restored = ExampleBox

\* C25: getSelectionBounds(a, b, v, n) equals getSelectionBounds(b, a, v, n)
\* for every viewport of scale > 0; its x, y are the smaller document
\* coordinates of the two points, its width and height are not negative, its
\* scale is v.scale and its pageNumber is n.
DragDirectionIndependent ==
  (boxCall # Null /\ boxCall.op = "getSelectionBounds" /\ Less(Zero, boxCall.viewport.scale)) =>
    LET a == screenToPDF(boxCall.startPoint, boxCall.viewport)
        b == screenToPDF(boxCall.endPoint, boxCall.viewport)
    IN  /\ (dragged # Null /\ draggedBack # Null) => dragged = draggedBack
        /\ \A result \in {dragged, draggedBack} \ {Null} :
             /\ result.x = MathMin(a.x, b.x)
             /\ result.y = MathMin(a.y, b.y)
             /\ LessEq(Zero, result.width)
             /\ LessEq(Zero, result.height)
             /\ result.width = MathAbs(Sub(a.x, b.x))
             /\ result.height = MathAbs(Sub(a.y, b.y))
             /\ result.scale = boxCall.viewport.scale
             /\ result.pageNumber = boxCall.pageNumber
             /\ result.normalized

\* a drag up and to the left and the same drag down and to the right, zoomed
DragDirectionWitness ==
  /\ boxCall # Null
  /\ boxCall.op = "getSelectionBounds"
  /\ boxCall.viewport.scale = Rat(3, 2)
  /\ Less(boxCall.endPoint.x, boxCall.startPoint.x)
  /\ Less(boxCall.endPoint.y, boxCall.startPoint.y)
  /\ dragged # Null
  /\ draggedBack # Null
  /\ Less(Zero, dragged.width)

----------------------------------------------------------------------------
(* Properties of useScrollPan *)

MaxScrollLeft == MathMax(Zero, Sub(scrollContainer.scrollWidth, scrollContainer.clientWidth))

MaxScrollTop == MathMax(Zero, Sub(scrollContainer.scrollHeight, scrollContainer.clientHeight))

\* C27: after any scrollTo, called by the host, by a wheel event, by a key or
\* by panning, the scroll position of the container is within
\* [0, max(0, scrollWidth - clientWidth)] x [0, max(0, scrollHeight - clientHeight)]
\* and the scrollPosition the hook reports equals it.
ScrollWithinBounds ==
  /\ [](scrollContainer # Null =>
          /\ LessEq(Zero, scrollContainer.scrollLeft)
          /\ LessEq(scrollContainer.scrollLeft, MaxScrollLeft)
          /\ LessEq(Zero, scrollContainer.scrollTop)
          /\ LessEq(scrollContainer.scrollTop, MaxScrollTop))
  /\ [][scrollCall' # scrollCall =>
          scrollQueued'.scrollPosition =
            Point(scrollContainer'.scrollLeft, scrollContainer'.scrollTop)]_vars
  /\ []((scrollCall # Null /\ scrollContainer # Null /\ scrollQueued = ScrollRendered) =>
          scrollPosition = Point(scrollContainer.scrollLeft, scrollContainer.scrollTop))

\* a pan dragged the page past its top left corner and the hook has rendered
ScrollWithinBoundsWitness ==
  /\ scrollCall # Null
  /\ scrollCall.via = "pan"
  /\ scrollCall.clamped
  /\ scrollContainer # Null
  /\ scrollContainer.scrollLeft = Zero
  /\ Less(Zero, scrollContainer.scrollTop)
  /\ scrollQueued = ScrollRendered
  /\ scrollPosition = Point(scrollContainer.scrollLeft, scrollContainer.scrollTop)

----------------------------------------------------------------------------
(* Properties of PixelUrl *)

\* the step is a completion of the selection machine
Completes == Called("completeSelection") /\ last'.fired # <<>>

IsDataURL(image) == "dataURL" \in DOMAIN image

----------------------------------------------------------------------------
(* Properties of the SelectionCanvas component *)

\* C32: the canvas has mousemove and mouseup handlers on the document only
\* while it is mounted with a drag in progress, and every way out of a drag
\* leaves the document without them: a mouse-up that ends the drag, the
\* deactivation of selection mode, and the unmount of the canvas.
ListenersScopedToDrag ==
  /\ [](documentListeners # Null => canvasMounted /\ drag.isSelecting)
  /\ [][\/ canvasLast'.op = "mouseUp" /\ drag.isSelecting /\ ~drag'.isSelecting
        \/ canvasLast'.op = "deactivate"
        \/ canvasLast'.op = "unmount"
        => documentListeners' = Null]_vars

====
